---- MODULE Spec2Model ----
(***************************************************************************)
(* Company-name-to-CIK resolution and alias learning of ReopAPI.           *)
(*                                                                         *)
(* Two resolver modules are modelled:                                      *)
(*   - src/cik_resolver.py          (CIK_CACHE, ALIAS_MAP, NEW_ALIASES,    *)
(*                                   record_alias, resolve_cik)   -> Spec  *)
(*   - src/app/api/cik_resolver.py  (load_alias_map,                       *)
(*                                   resolve_company_name)     -> SpecApi  *)
(*                                                                         *)
(* Python strings are sequences of one-character strings, so that          *)
(* str.lower(), str.strip(), str.zfill() and re.sub() are computed.        *)
(* Python dicts are functions; a dict whose iteration order matters        *)
(* (CIK_CACHE, the SEC directory) is a sequence of records.                *)
(***************************************************************************)
EXTENDS Integers, Sequences, FiniteSets, TLC

(***************************************************************************)
(* Bounds of the model                                                     *)
(***************************************************************************)
\* number of clock advances explored
MaxTicks == 1
\* number of calls explored in one behaviour
MaxCalls == 2
\* wall clock (epoch seconds) when the process starts
StartTime == 1700000000
\* number of threads that call record_alias at the same time
MaxThreads == 2
\* number of entries of a submissions feed
MaxFilings == 2
\* largest count asked of get_quarterly_filings
MaxCount == 2
\* number of nodes of a document given to extract_10q_sections
MaxBlocks == 3
\* number of people given to profile_people
MaxPeople == 2

(***************************************************************************)
(* Python string primitives                                                *)
(***************************************************************************)
UpperCase == <<"A", "B", "C", "D", "E", "F", "G", "H", "I", "J", "K", "L", "M",
               "N", "O", "P", "Q", "R", "S", "T", "U", "V", "W", "X", "Y", "Z">>
LowerCase == <<"a", "b", "c", "d", "e", "f", "g", "h", "i", "j", "k", "l", "m",
               "n", "o", "p", "q", "r", "s", "t", "u", "v", "w", "x", "y", "z">>

\* the lowercase letter of every uppercase letter
ToLower == [c \in {UpperCase[i] : i \in 1..26} |->
               LowerCase[CHOOSE i \in 1..26 : UpperCase[i] = c]]

\* str.lower() on one character
lower_char(c) == IF c \in DOMAIN ToLower THEN ToLower[c] ELSE c

\* str.lower()
lower(s) == [i \in 1..Len(s) |-> lower_char(s[i])]

\* str.isspace() on one character
IsSpace(c) == c \in {" ", "\t", "\n"}

RECURSIVE lstrip(_)
lstrip(s) == IF s # <<>> /\ IsSpace(Head(s)) THEN lstrip(Tail(s)) ELSE s

RECURSIVE rstrip(_)
rstrip(s) ==
    IF s # <<>> /\ IsSpace(s[Len(s)]) THEN rstrip(SubSeq(s, 1, Len(s) - 1)) ELSE s

\* str.strip()
strip(s) == rstrip(lstrip(s))

\* str.zfill(width) on a string of digits
RECURSIVE zfill(_, _)
zfill(s, width) == IF Len(s) >= width THEN s ELSE zfill(<<"0">> \o s, width)

\* str.endswith(suffix)
endswith(s, suffix) ==
    /\ Len(s) >= Len(suffix)
    /\ SubSeq(s, Len(s) - Len(suffix) + 1, Len(s)) = suffix

\* str.replace(" ", "+")
replace_space_plus(s) == [i \in 1..Len(s) |-> IF s[i] = " " THEN "+" ELSE s[i]]

\* Python's None: never equal to a string, whose elements are single characters
None == <<"<None>">>

(***************************************************************************)
(* Python dict primitives                                                  *)
(***************************************************************************)
EmptyDict == [k \in {} |-> k]

\* d.get(k, default)
Get(d, k, default) == IF k \in DOMAIN d THEN d[k] ELSE default

\* an item assignment that would rebuild the dict from the new item alone
PutAlone(d, k, v) == [x \in {k} |-> v]

\* d[k] = v
Put(d, k, v) == [x \in (DOMAIN d) \cup {k} |-> IF x = k THEN v ELSE d[x]]

\* {**a, **b}
Merge(a, b) == [x \in (DOMAIN a) \cup (DOMAIN b) |-> IF x \in DOMAIN b THEN b[x] ELSE a[x]]

(***************************************************************************)
(* String literals of the program and of the modelled environment          *)
(***************************************************************************)
S_meta == <<"m", "e", "t", "a">>
S_goog == <<"g", "o", "o", "g">>
S_google == <<"g", "o", "o", "g", "l", "e">>
S_fb == <<"f", "b">>
S_rh == <<"r", "h">>
S_cent == <<"c", "e", "n", "t">>
S_ball == <<"b", "a", "l", "l">>
S_facebook == <<"f", "a", "c", "e", "b", "o", "o", "k">>
S_alphabet == <<"a", "l", "p", "h", "a", "b", "e", "t">>
\* "Meta Platforms, Inc."
S_MetaPlatforms == <<"M", "e", "t", "a", " ", "P", "l", "a", "t", "f", "o", "r", "m", "s", ",", " ", "I", "n", "c", ".">>
\* "Alphabet Inc."
S_AlphabetInc == <<"A", "l", "p", "h", "a", "b", "e", "t", " ", "I", "n", "c", ".">>
S_RH == <<"R", "H">>
\* "Central Garden & Pet Company"
S_CentralGarden == <<"C", "e", "n", "t", "r", "a", "l", " ", "G", "a", "r", "d", "e", "n", " ", "&", " ", "P", "e", "t", " ", "C", "o", "m", "p", "a", "n", "y">>
\* "Ball Corporation"
S_BallCorporation == <<"B", "a", "l", "l", " ", "C", "o", "r", "p", "o", "r", "a", "t", "i", "o", "n">>
S_GOOG == <<"G", "O", "O", "G">>
S_META == <<"M", "E", "T", "A">>
\* " Meta " (a protected key in other case, with surrounding blanks)
S_InputMeta == <<" ", "M", "e", "t", "a", " ">>
\* "Alphabet Inc" (the official name without its final period)
S_InputAlphabet == <<"A", "l", "p", "h", "a", "b", "e", "t", " ", "I", "n", "c">>
S_alphabet_inc == <<"a", "l", "p", "h", "a", "b", "e", "t", " ", "i", "n", "c">>
S_Nvidia == <<"N", "v", "i", "d", "i", "a">>
\* "NVIDIA Corporation"
S_NvidiaCorporation == <<"N", "V", "I", "D", "I", "A", " ", "C", "o", "r", "p", "o", "r", "a", "t", "i", "o", "n">>
\* "Nvidia Corp"
S_NvidiaCorp == <<"N", "v", "i", "d", "i", "a", " ", "C", "o", "r", "p">>
\* "Alphabet Holdings"
S_AlphabetHoldings == <<"A", "l", "p", "h", "a", "b", "e", "t", " ", "H", "o", "l", "d", "i", "n", "g", "s">>
S_inc == <<"i", "n", "c">>
S_corp == <<"c", "o", "r", "p">>
S_corporation == <<"c", "o", "r", "p", "o", "r", "a", "t", "i", "o", "n">>
S_llc == <<"l", "l", "c">>
S_ltd == <<"l", "t", "d">>
D_1528849 == <<"1", "5", "2", "8", "8", "4", "9">>
D_1652044 == <<"1", "6", "5", "2", "0", "4", "4">>
D_1326801 == <<"1", "3", "2", "6", "8", "0", "1">>

(***************************************************************************)
(* Environment: the regulator's ticker directory, the remote alias         *)
(* document and the local alias file                                       *)
(***************************************************************************)
\* company_tickers.json: ticker, cik_str, title per listed company
SEC_DIRECTORY ==
    << [ticker |-> S_RH,   cik_str |-> D_1528849, title |-> S_RH],
       [ticker |-> S_GOOG, cik_str |-> D_1652044, title |-> S_AlphabetInc],
       [ticker |-> S_META, cik_str |-> D_1326801, title |-> S_MetaPlatforms] >>

\* alias_map.json on GitHub, as first seen by the process
REMOTE_ALIAS_DOC ==
    (S_Nvidia :> S_NvidiaCorporation) @@ (S_alphabet_inc :> S_AlphabetInc)
        @@ (S_rh :> S_AlphabetHoldings)

\* alias_map.json in the working directory
LOCAL_ALIAS_DOC ==
    (S_Nvidia :> S_NvidiaCorp) @@ (S_meta :> S_AlphabetInc)

\* the local file is absent, present but not valid JSON, or holds LOCAL_ALIAS_DOC
LocalFileStates == {"missing", "unreadable", "readable"}

\* outcome of one HTTP request: the call raised (connection error, timeout),
\* the server answered with a status other than 200, or it answered 200
HttpOutcomes == {"exception", "404", "200"}

(***************************************************************************)
(* src/cik_resolver.py: configuration and in-memory stores                 *)
(***************************************************************************)
\* 60 * 60 * 24 * 7 seconds
ALIAS_TTL == 604800

PROTECTED_ALIASES == {S_meta, S_facebook, S_google, S_alphabet, S_fb}

\* the module-level literal ALIAS_MAP
ALIAS_MAP_LITERAL ==
    (S_meta :> S_MetaPlatforms) @@ (S_goog :> S_AlphabetInc) @@ (S_google :> S_AlphabetInc)
        @@ (S_fb :> S_MetaPlatforms) @@ (S_rh :> S_RH) @@ (S_cent :> S_CentralGarden)
        @@ (S_ball :> S_BallCorporation)

\* the corporate suffixes of the fallback regex, lowercased (re.IGNORECASE)
CorporateSuffixes == {S_inc, S_corp, S_corporation, S_llc, S_ltd}

\* codecs that str.encode() accepts; "base64" is a bytes-to-bytes codec
TextEncodings == {"utf-8", "ascii", "latin-1"}

VARIABLES
    initialised,       \* the import-time init_cache() has run
    CIK_CACHE,         \* ticker key -> cik, title (insertion ordered)
    ALIAS_MAP,         \* alias key -> official name
    NEW_ALIASES,       \* pending alias buffer
    ALIAS_TIMESTAMP,   \* alias key -> time of its last proposal
    GITHUB_TOKEN,      \* a write credential is configured
    remoteDoc,         \* alias_map.json on GitHub
    alias_map,         \* app/api: _alias_map
    last_load_time,    \* app/api: _last_load_time
    load_attempts,     \* app/api: _load_attempts
    sec_cache,         \* app/api: lru_cache of _fetch_sec_data
    now,               \* time.time()
    ticks,             \* clock advances so far
    calls,             \* calls made so far
    ret,               \* what the last call did and returned
    workers,           \* the threads running concurrently: position, arguments, result
    completed,         \* the order in which the tasks of a thread pool finished
    frame              \* the locals of the call that waits for its threads

vars == <<initialised, CIK_CACHE, ALIAS_MAP, NEW_ALIASES, ALIAS_TIMESTAMP, GITHUB_TOKEN,
          remoteDoc, alias_map, last_load_time, load_attempts, sec_cache,
          now, ticks, calls, ret, workers, completed, frame>>

legacyVars == <<initialised, CIK_CACHE, ALIAS_MAP, NEW_ALIASES, ALIAS_TIMESTAMP, GITHUB_TOKEN>>
apiVars == <<alias_map, last_load_time, load_attempts, sec_cache>>
poolVars == <<workers, completed, frame>>

\* an outbound request: its target, its query string and its timeout
\* (<<>> when none is passed)
Req(url, query, timeout) == [url |-> url, query |-> query, timeout |-> timeout]

\* the record of a call: its argument, how it ended ("return" or "raise"), the
\* values returned, the requests issued and the answers the environment gave
Ret(op, input, kind, cik, name, requests, env) ==
    [op |-> op, input |-> input, kind |-> kind, cik |-> cik, name |-> name,
     requests |-> requests, env |-> env]

(***************************************************************************)
(* src/cik_resolver.py: loaders                                            *)
(***************************************************************************)
\* position of a ticker key in a cache, 0 when absent
IndexOfKey(cache, key) ==
    IF \E i \in 1..Len(cache) : cache[i].key = key
    THEN CHOOSE i \in 1..Len(cache) : cache[i].key = key
    ELSE 0

\* one insertion of a dict comprehension: a repeated key keeps its position
CacheInsert(cache, entry) ==
    IF IndexOfKey(cache, entry.key) = 0
    THEN Append(cache, entry)
    ELSE [cache EXCEPT ![IndexOfKey(cache, entry.key)] = entry]

RECURSIVE tickers_json_dict(_, _)
tickers_json_dict(entries, n) ==
    IF n = 0 THEN <<>>
    ELSE CacheInsert(tickers_json_dict(entries, n - 1),
                     [key   |-> lower(entries[n].ticker),
                      cik   |-> zfill(entries[n].cik_str, 10),
                      title |-> entries[n].title])

\* the dict built from a 200 answer
TickersJson == tickers_json_dict(SEC_DIRECTORY, Len(SEC_DIRECTORY))

load_company_tickers_json(outcome) == IF outcome = "200" THEN TickersJson ELSE <<>>

RECURSIVE tickers_csv_dict(_, _)
tickers_csv_dict(entries, n) ==
    IF n = 0 THEN <<>>
    ELSE CacheInsert(tickers_csv_dict(entries, n - 1),
                     [key   |-> strip(lower(entries[n].ticker)),
                      cik   |-> zfill(entries[n].cik_str, 10),
                      title |-> strip(entries[n].title)])

\* the dict built from a 200 answer
TickersCsv == tickers_csv_dict(SEC_DIRECTORY, Len(SEC_DIRECTORY))

load_company_tickers_csv(outcome) == IF outcome = "200" THEN TickersCsv ELSE <<>>

\* load_aliases.apply_aliases: protected keys are skipped, every other key is stored as read
apply_aliases(amap, aliases) ==
    LET accepted == {k \in DOMAIN aliases : k \notin PROTECTED_ALIASES}
    IN  [k \in (DOMAIN amap) \cup accepted |-> IF k \in accepted THEN aliases[k] ELSE amap[k]]

\* load_aliases: the local file first, then the remote document
load_aliases(amap, file, remote, doc) ==
    LET afterLocal  == IF file = "readable" THEN apply_aliases(amap, LOCAL_ALIAS_DOC) ELSE amap
        afterRemote == IF remote = "200" THEN apply_aliases(afterLocal, doc) ELSE afterLocal
    IN  [ALIAS_MAP |-> afterRemote,
         requests  |-> << Req("ALIAS_GITHUB_JSON", <<>>, <<5>>) >>]

(***************************************************************************)
(* src/cik_resolver.py: record_alias                                       *)
(***************************************************************************)
\* the condition of record_alias under which the proposal is written
record_alias_check(alias_key, amap, stamps, t) ==
    \/ alias_key \notin DOMAIN amap
    \/ (alias_key \in DOMAIN stamps /\ t - stamps[alias_key] > ALIAS_TTL)

record_alias(user_input, resolved_name, amap, new, stamps, t) ==
    LET alias_key == lower(user_input)
    IN  IF alias_key \in PROTECTED_ALIASES
        THEN [NEW_ALIASES |-> new, ALIAS_TIMESTAMP |-> stamps]
        ELSE IF record_alias_check(alias_key, amap, stamps, t)
             THEN [NEW_ALIASES     |-> Put(new, alias_key, resolved_name),
                   ALIAS_TIMESTAMP |-> Put(stamps, alias_key, t)]
             ELSE [NEW_ALIASES |-> new, ALIAS_TIMESTAMP |-> stamps]

(***************************************************************************)
(* src/cik_resolver.py: resolve_cik                                        *)
(***************************************************************************)
\* re.sub(r'(,?\s+(Inc|Corp|Corporation|LLC|Ltd)\.?)$', '', name, flags=re.IGNORECASE)
strip_corporate_suffix(name) ==
    LET noDot == IF name # <<>> /\ name[Len(name)] = "."
                 THEN SubSeq(name, 1, Len(name) - 1) ELSE name
        hits  == {w \in CorporateSuffixes : endswith(lower(noDot), w)}
    IN  IF hits = {} THEN name
        ELSE LET w    == CHOOSE x \in hits : \A y \in hits : Len(y) <= Len(x)
                 stem == SubSeq(noDot, 1, Len(noDot) - Len(w))
                 bare == rstrip(stem)
             IN  IF bare = stem THEN name
                 ELSE IF bare # <<>> /\ bare[Len(bare)] = ","
                      THEN SubSeq(bare, 1, Len(bare) - 1)
                      ELSE bare

\* what the company-search page can answer: the request raises, a status other
\* than 200, a page without a numeric anchor, a page whose first numeric anchor
\* is the given text
NoScrape == [status |-> "-", anchor |-> None]

ScrapeOutcomes ==
    { [status |-> "exception", anchor |-> None],
      [status |-> "404",       anchor |-> None],
      [status |-> "200",       anchor |-> None],
      [status |-> "200",       anchor |-> D_1652044] }

\* resolve_cik: the returned pair, the record_alias call it makes (<<>> when it
\* makes none) and the requests it issues
resolve_cik(company_name, cache, amap, scrape) ==
    LET name_key      == strip(lower(company_name))
        resolved_name == Get(amap, name_key, company_name)
        byTicker      == IndexOfKey(cache, name_key)
        titleHits     == {i \in 1..Len(cache) : lower(cache[i].title) = name_key}
        byTitle       == CHOOSE i \in titleHits : \A j \in titleHits : i <= j
        cleaned       == strip_corporate_suffix(resolved_name)
        request       == Req("browse-edgar", replace_space_plus(cleaned), <<>>)
    IN  IF byTicker # 0
        THEN [cik |-> cache[byTicker].cik, name |-> cache[byTicker].title,
              record |-> <<company_name, cache[byTicker].title>>, requests |-> <<>>]
        ELSE IF titleHits # {}
        THEN [cik |-> cache[byTitle].cik, name |-> cache[byTitle].title,
              record |-> <<company_name, cache[byTitle].title>>, requests |-> <<>>]
        ELSE IF scrape.status = "200" /\ scrape.anchor # None
        THEN [cik |-> zfill(strip(scrape.anchor), 10), name |-> resolved_name,
              record |-> <<company_name, resolved_name>>, requests |-> <<request>>]
        ELSE [cik |-> None, name |-> resolved_name,
              record |-> <<>>, requests |-> <<request>>]

(***************************************************************************)
(* src/cik_resolver.py: push_new_aliases_to_github                         *)
(***************************************************************************)
\* a str.encode() that would accept every codec name
str_encode_any(codec) == "bytes"

\* str.encode(codec): a codec that is not a text encoding raises LookupError
str_encode(codec) == IF codec \in TextEncodings THEN "bytes" ELSE "LookupError"

\* a persist without its early return and without its try/except: it asks for
\* the version token whatever the buffer holds and lets a failure propagate
push_unguarded(new, token, doc, get, raw, put) ==
    [kind      |-> IF get = "200" THEN "return" ELSE "raise",
     requests  |-> << Req("ALIAS_PUSH_URL", <<>>, <<>>) >>,
     remoteDoc |-> doc]

\* push_new_aliases_to_github: how it ends, the requests it issues and the
\* document it leaves; every exception raised after the early return is caught
\* by the except clause, and no request is repeated
push_new_aliases_to_github(new, token, doc, get, raw, put) ==
    LET getReq == Req("ALIAS_PUSH_URL", <<>>, <<>>)
        rawReq == Req("ALIAS_GITHUB_JSON", <<>>, <<>>)
        putReq == Req("PUT ALIAS_PUSH_URL", <<>>, <<>>)
        updated == Merge(doc, new)
    IN  IF new = EmptyDict \/ ~token
        THEN [kind |-> "return", requests |-> <<>>, remoteDoc |-> doc]
        ELSE IF get # "200"
        THEN [kind |-> "return", requests |-> <<getReq>>, remoteDoc |-> doc]
        ELSE IF raw # "200"
        THEN [kind |-> "return", requests |-> <<getReq, rawReq>>, remoteDoc |-> doc]
        ELSE IF str_encode("base64") = "LookupError"
        THEN [kind |-> "return", requests |-> <<getReq, rawReq>>, remoteDoc |-> doc]
        ELSE [kind      |-> "return",
              requests  |-> <<getReq, rawReq, putReq>>,
              remoteDoc |-> IF put = "200" THEN updated ELSE doc]

(***************************************************************************)
(* src/cik_resolver.py: the calls                                          *)
(***************************************************************************)
\* raw inputs given to resolve_cik
Inputs == {S_RH, S_InputMeta, S_google, S_AlphabetInc, S_InputAlphabet}

\* arguments given to record_alias when it is called directly
RecordInputs ==
    { <<S_Nvidia, S_NvidiaCorporation>>, <<S_Nvidia, S_NvidiaCorp>>,
      <<S_InputMeta, S_MetaPlatforms>> }


\* the answers that matter to a call of init_cache: the CSV directory is only
\* requested when the JSON directory came back empty
InitCacheEnv ==
    { <<json, csv, file, remote>> \in
        HttpOutcomes \X (HttpOutcomes \cup {"-"}) \X LocalFileStates \X HttpOutcomes :
        (csv = "-") <=> (json = "200") }

\* the answers that matter to a call of push_new_aliases_to_github: a request
\* is only answered when it is made
PushEnv ==
    { <<get, raw, put>> \in
        HttpOutcomes \X (HttpOutcomes \cup {"-"}) \X (HttpOutcomes \cup {"-"}) :
        /\ (raw = "-") <=> (get # "200")
        /\ (put = "-") <=> (raw # "200" \/ str_encode("base64") = "LookupError") }

Init ==
    /\ initialised = FALSE
    /\ CIK_CACHE = <<>>
    /\ ALIAS_MAP = ALIAS_MAP_LITERAL
    /\ NEW_ALIASES = EmptyDict
    /\ ALIAS_TIMESTAMP = EmptyDict
    /\ GITHUB_TOKEN \in BOOLEAN
    /\ remoteDoc = REMOTE_ALIAS_DOC
    /\ alias_map = EmptyDict
    /\ last_load_time = 0
    /\ load_attempts = 0
    /\ sec_cache = None
    /\ now = StartTime
    /\ ticks = 0
    /\ calls = 0
    /\ ret = Ret("import", <<>>, "return", None, None, <<>>, <<>>)
    /\ workers = <<>>
    /\ completed = <<>>
    /\ frame = <<>>

\* init_cache(), run once when the module is imported
InitCache ==
    /\ ~initialised
    /\ \E env \in InitCacheEnv :
         LET fromJson == load_company_tickers_json(env[1])
             loaded   == load_aliases(ALIAS_MAP, env[3], env[4], remoteDoc)
         IN  /\ CIK_CACHE' = IF fromJson # <<>> THEN fromJson
                             ELSE load_company_tickers_csv(env[2])
             /\ ALIAS_MAP' = loaded.ALIAS_MAP
             /\ ret' = Ret("init_cache", <<>>, "return", None, None,
                           (IF fromJson # <<>>
                            THEN << Req("SEC_TICKERS_JSON", <<>>, <<>>) >>
                            ELSE << Req("SEC_TICKERS_JSON", <<>>, <<>>),
                                    Req("SEC_TICKERS_CSV", <<>>, <<>>) >>)
                           \o loaded.requests, env)
    /\ initialised' = TRUE
    /\ UNCHANGED <<NEW_ALIASES, ALIAS_TIMESTAMP, GITHUB_TOKEN, remoteDoc, now, ticks, calls>>
    /\ UNCHANGED apiVars
    /\ UNCHANGED poolVars

LoadAliases ==
    /\ initialised
    /\ calls < MaxCalls
    /\ \E file \in LocalFileStates, remote \in HttpOutcomes :
         LET loaded == load_aliases(ALIAS_MAP, file, remote, remoteDoc)
         IN  /\ ALIAS_MAP' = loaded.ALIAS_MAP
             /\ ret' = Ret("load_aliases", <<>>, "return", None, None, loaded.requests,
                           <<file, remote>>)
    /\ calls' = calls + 1
    /\ UNCHANGED <<initialised, CIK_CACHE, NEW_ALIASES, ALIAS_TIMESTAMP, GITHUB_TOKEN,
                   remoteDoc, now, ticks>>
    /\ UNCHANGED apiVars
    /\ UNCHANGED poolVars

RecordAlias ==
    /\ initialised
    /\ calls < MaxCalls
    /\ \E args \in RecordInputs :
         LET rec == record_alias(args[1], args[2], ALIAS_MAP, NEW_ALIASES, ALIAS_TIMESTAMP, now)
         IN  /\ NEW_ALIASES' = rec.NEW_ALIASES
             /\ ALIAS_TIMESTAMP' = rec.ALIAS_TIMESTAMP
             /\ ret' = Ret("record_alias", args[1], "return", None, args[2], <<>>, <<>>)
    /\ calls' = calls + 1
    /\ UNCHANGED <<initialised, CIK_CACHE, ALIAS_MAP, GITHUB_TOKEN, remoteDoc, now, ticks>>
    /\ UNCHANGED apiVars
    /\ UNCHANGED poolVars

\* the company-search page only answers when resolve_cik asks it
ScrapeEnv(company_name) ==
    IF resolve_cik(company_name, CIK_CACHE, ALIAS_MAP, NoScrape).requests = <<>>
    THEN {NoScrape}
    ELSE ScrapeOutcomes

ResolveCik ==
    /\ initialised
    /\ calls < MaxCalls
    /\ \E company_name \in Inputs :
       \E scrape \in ScrapeEnv(company_name) :
         LET res == resolve_cik(company_name, CIK_CACHE, ALIAS_MAP, scrape)
             rec == IF res.record = <<>>
                    THEN [NEW_ALIASES |-> NEW_ALIASES, ALIAS_TIMESTAMP |-> ALIAS_TIMESTAMP]
                    ELSE record_alias(res.record[1], res.record[2], ALIAS_MAP, NEW_ALIASES,
                                      ALIAS_TIMESTAMP, now)
         IN  /\ NEW_ALIASES' = rec.NEW_ALIASES
             /\ ALIAS_TIMESTAMP' = rec.ALIAS_TIMESTAMP
             /\ ret' = Ret("resolve_cik", company_name, "return", res.cik, res.name,
                           res.requests, <<>>)
    /\ calls' = calls + 1
    /\ UNCHANGED <<initialised, CIK_CACHE, ALIAS_MAP, GITHUB_TOKEN, remoteDoc, now, ticks>>
    /\ UNCHANGED apiVars
    /\ UNCHANGED poolVars

\* GitHub only answers when push_new_aliases_to_github asks it
PushEnvSeen ==
    IF NEW_ALIASES = EmptyDict \/ ~GITHUB_TOKEN THEN {<<"-", "-", "-">>} ELSE PushEnv

PushNewAliases ==
    /\ initialised
    /\ calls < MaxCalls
    /\ \E env \in PushEnvSeen :
         LET pushed == push_new_aliases_to_github(NEW_ALIASES, GITHUB_TOKEN, remoteDoc,
                                                  env[1], env[2], env[3])
         IN  /\ remoteDoc' = pushed.remoteDoc
             /\ ret' = Ret("push_new_aliases_to_github", <<>>, pushed.kind, None, None,
                           pushed.requests, <<>>)
    /\ calls' = calls + 1
    /\ UNCHANGED <<initialised, CIK_CACHE, ALIAS_MAP, NEW_ALIASES, ALIAS_TIMESTAMP,
                   GITHUB_TOKEN, now, ticks>>
    /\ UNCHANGED apiVars
    /\ UNCHANGED poolVars

\* time passes between two calls: the alias TTL, or a second more
Tick ==
    /\ initialised
    /\ ticks < MaxTicks
    /\ \E d \in {ALIAS_TTL, ALIAS_TTL + 1} : now' = now + d
    /\ ticks' = ticks + 1
    /\ UNCHANGED <<initialised, CIK_CACHE, ALIAS_MAP, NEW_ALIASES, ALIAS_TIMESTAMP,
                   GITHUB_TOKEN, remoteDoc, calls, ret>>
    /\ UNCHANGED apiVars
    /\ UNCHANGED poolVars

Next ==
    \/ InitCache
    \/ LoadAliases
    \/ RecordAlias
    \/ ResolveCik
    \/ PushNewAliases
    \/ Tick

Spec == Init /\ [][Next]_vars

(***************************************************************************)
(* src/cik_resolver.py: record_alias called from several threads at once.  *)
(* A thread can be preempted between any two statements; one dict lookup   *)
(* or item assignment is a single step of the interpreter.                 *)
(***************************************************************************)
RecThreads == 1..MaxThreads

\* arguments the concurrent resolutions give to record_alias
ConcurrentInputs ==
    RecordInputs \cup { <<S_InputAlphabet, S_AlphabetInc>>, <<S_RH, S_RH>> }

IdleThread ==
    [pc |-> "idle", user_input |-> None, resolved_name |-> None, alias_key |-> None,
     now |-> 0, recorded |-> FALSE]

\* the stores as a running process can hold them: after init_cache alone, or
\* after record_alias("Alphabet Inc", "Alphabet Inc.") and a later load_aliases
\* that read the remote document
RecStores ==
    { [ALIAS_MAP |-> ALIAS_MAP_LITERAL, NEW_ALIASES |-> EmptyDict,
       ALIAS_TIMESTAMP |-> EmptyDict],
      [ALIAS_MAP |-> load_aliases(ALIAS_MAP_LITERAL, "missing", "200",
                                  REMOTE_ALIAS_DOC).ALIAS_MAP,
       NEW_ALIASES |-> record_alias(S_InputAlphabet, S_AlphabetInc, ALIAS_MAP_LITERAL,
                                    EmptyDict, EmptyDict, StartTime).NEW_ALIASES,
       ALIAS_TIMESTAMP |-> record_alias(S_InputAlphabet, S_AlphabetInc, ALIAS_MAP_LITERAL,
                                        EmptyDict, EmptyDict, StartTime).ALIAS_TIMESTAMP] }

InitRec ==
    /\ initialised = TRUE
    /\ CIK_CACHE = TickersJson
    /\ \E st \in RecStores :
         /\ ALIAS_MAP = st.ALIAS_MAP
         /\ NEW_ALIASES = st.NEW_ALIASES
         /\ ALIAS_TIMESTAMP = st.ALIAS_TIMESTAMP
    /\ GITHUB_TOKEN = FALSE
    /\ remoteDoc = REMOTE_ALIAS_DOC
    /\ alias_map = EmptyDict
    /\ last_load_time = 0
    /\ load_attempts = 0
    /\ sec_cache = None
    /\ now = StartTime
    /\ ticks = 0
    /\ calls = 0
    /\ ret = Ret("init_cache", <<>>, "return", None, None, <<>>, <<>>)
    /\ workers = [t \in RecThreads |-> IdleThread]
    /\ completed = <<>>
    /\ frame = <<>>

\* lines 136-139: the key, the protected-key return, the clock reading
RecEnter(t) ==
    /\ workers[t].pc = "idle"
    /\ \E args \in ConcurrentInputs :
         LET alias_key == lower(args[1])
         IN  workers' = [workers EXCEPT ![t] =
                 [pc |-> IF alias_key \in PROTECTED_ALIASES THEN "done" ELSE "check",
                  user_input |-> args[1], resolved_name |-> args[2],
                  alias_key |-> alias_key, now |-> now, recorded |-> FALSE]]
    /\ UNCHANGED <<now, ticks, calls, ret, remoteDoc, completed, frame>>
    /\ UNCHANGED legacyVars
    /\ UNCHANGED apiVars

\* line 140: the membership test
RecCheck(t) ==
    /\ workers[t].pc = "check"
    /\ LET pass == record_alias_check(workers[t].alias_key, ALIAS_MAP, ALIAS_TIMESTAMP,
                                      workers[t].now)
       IN  workers' = [workers EXCEPT ![t].pc = IF pass THEN "write_alias" ELSE "done",
                                      ![t].recorded = pass]
    /\ UNCHANGED <<now, ticks, calls, ret, remoteDoc, completed, frame>>
    /\ UNCHANGED legacyVars
    /\ UNCHANGED apiVars

\* line 141: NEW_ALIASES[alias_key] = resolved_name
RecWriteAlias(t) ==
    /\ workers[t].pc = "write_alias"
    /\ NEW_ALIASES' = Put(NEW_ALIASES, workers[t].alias_key, workers[t].resolved_name)
    /\ workers' = [workers EXCEPT ![t].pc = "write_stamp"]
    /\ UNCHANGED <<initialised, CIK_CACHE, ALIAS_MAP, ALIAS_TIMESTAMP, GITHUB_TOKEN>>
    /\ UNCHANGED <<now, ticks, calls, ret, remoteDoc, completed, frame>>
    /\ UNCHANGED apiVars

\* line 142: ALIAS_TIMESTAMP[alias_key] = now
RecWriteStamp(t) ==
    /\ workers[t].pc = "write_stamp"
    /\ ALIAS_TIMESTAMP' = Put(ALIAS_TIMESTAMP, workers[t].alias_key, workers[t].now)
    /\ workers' = [workers EXCEPT ![t].pc = "done"]
    /\ UNCHANGED <<initialised, CIK_CACHE, ALIAS_MAP, NEW_ALIASES, GITHUB_TOKEN>>
    /\ UNCHANGED <<now, ticks, calls, ret, remoteDoc, completed, frame>>
    /\ UNCHANGED apiVars

NextRec ==
    \/ \E t \in RecThreads : RecEnter(t)
    \/ \E t \in RecThreads : RecCheck(t)
    \/ \E t \in RecThreads : RecWriteAlias(t)
    \/ \E t \in RecThreads : RecWriteStamp(t)
    \/ Tick

SpecRec == InitRec /\ [][NextRec]_vars

(***************************************************************************)
(* src/app/api/cik_resolver.py                                             *)
(***************************************************************************)
REQUEST_TIMEOUT == 5
\* 1 hour in seconds
CACHE_TTL == 3600
MAX_RETRIES == 3
RETRY_DELAY == 1

\* _normalize_key
normalize_key(key) == strip(lower(key))

\* {_normalize_key(k): v for k, v in doc.items()}; the documents of the model
\* hold no two keys with the same normal form
normalized_dict(doc) ==
    [nk \in {normalize_key(k) : k \in DOMAIN doc} |->
        doc[CHOOSE k \in DOMAIN doc : normalize_key(k) = nk]]

\* outcome of one attempt of _fetch_sec_data: raise_for_status() turns every
\* answer that is not a success into an exception
FetchOutcomes == {"exception", "200"}

\* what the directory server answers to the first, the second and the third
\* request of one _fetch_sec_data call; it only answers a request that is
\* made ("-" stands for no request), so the answers end at the first success
FetchEnv ==
    { env \in [1..MAX_RETRIES -> FetchOutcomes \cup {"-"}] :
        \A i \in 1..MAX_RETRIES :
          (env[i] = "-") <=> (\E j \in 1..(i - 1) : env[j] = "200") }

\* sum of the sleeps of _retry_on_failure after the first n failed attempts
RECURSIVE retry_sleep(_)
retry_sleep(n) == IF n = 0 THEN 0 ELSE retry_sleep(n - 1) + RETRY_DELAY * n

\* a failed attempt is followed by a sleep whatever its number
sleeps_always(attempt) == TRUE

\* if attempt < MAX_RETRIES - 1: the sleep after a failed attempt
sleeps_after(attempt) == attempt < MAX_RETRIES - 1

\* the loop of the wrapper from the given attempt on (attempt counts from 0):
\* the attempts made, the time slept and the outcome; last_exception is the
\* number of the attempt whose exception the wrapper holds, 0 for None
RECURSIVE retry_from(_, _, _)
retry_from(env, attempt, last_exception) ==
    IF attempt = MAX_RETRIES
    THEN [attempts |-> attempt, slept |-> 0, raised |-> TRUE,
          exception |-> last_exception]
    ELSE IF env[attempt + 1] = "200"
    THEN [attempts |-> attempt + 1, slept |-> 0, raised |-> FALSE, exception |-> 0]
    ELSE LET rest == retry_from(env, attempt + 1, attempt + 1)
         IN  [rest EXCEPT !.slept = @ + (IF sleeps_after(attempt)
                                         THEN RETRY_DELAY * (attempt + 1) ELSE 0)]

\* _retry_on_failure(func)
retry_on_failure(env) == retry_from(env, 0, 0)

\* _fetch_sec_data under lru_cache: a cached value is returned without a
\* request, a fetched value is cached, an exception is not
fetch_sec_data(cache, env) ==
    IF cache # None
    THEN [data |-> cache, sec_cache |-> cache, requests |-> <<>>, slept |-> 0,
          raised |-> FALSE]
    ELSE LET r == retry_on_failure(env)
         IN  [data      |-> IF r.raised THEN None ELSE SEC_DIRECTORY,
              sec_cache |-> IF r.raised THEN None ELSE SEC_DIRECTORY,
              requests  |-> [i \in 1..r.attempts |->
                                Req("SEC_TICKER_CIK_URL", <<>>, <<REQUEST_TIMEOUT>>)],
              slept     |-> r.slept,
              raised    |-> r.raised]

\* the cached map is served up to and including the moment it is CACHE_TTL old
cache_valid_inclusive(force_reload, amap, last, t) ==
    amap # EmptyDict /\ ~force_reload /\ (t - last) <= CACHE_TTL

\* if _alias_map and not force_reload and (current_time - _last_load_time) < CACHE_TTL
cache_valid(force_reload, amap, last, t) ==
    amap # EmptyDict /\ ~force_reload /\ (t - last) < CACHE_TTL

\* load_alias_map(force_reload)
load_alias_map(force_reload, amap, last, attempts, t, doc, github, file) ==
    IF cache_valid(force_reload, amap, last, t)
    THEN [kind |-> "return", alias_map |-> amap, last_load_time |-> last,
          load_attempts |-> attempts, requests |-> <<>>]
    ELSE LET request == Req("GITHUB_ALIAS_JSON", <<>>, <<REQUEST_TIMEOUT>>)
         IN  IF github = "200"
             THEN [kind |-> "return", alias_map |-> normalized_dict(doc),
                   last_load_time |-> t, load_attempts |-> attempts + 1,
                   requests |-> <<request>>]
             ELSE IF file = "readable"
             THEN [kind |-> "return", alias_map |-> normalized_dict(LOCAL_ALIAS_DOC),
                   last_load_time |-> t, load_attempts |-> attempts + 1,
                   requests |-> <<request>>]
             ELSE IF github \in {"exception", "200 not JSON"} \/ file = "unreadable"
             THEN [kind |-> "raise", alias_map |-> amap, last_load_time |-> last,
                   load_attempts |-> attempts + 1, requests |-> <<request>>]
             ELSE [kind |-> "return", alias_map |-> EmptyDict, last_load_time |-> last,
                   load_attempts |-> attempts + 1, requests |-> <<request>>]

\* the loop of resolve_company_name over sec_data.values(): the first entry
\* whose ticker or title equals the candidate, 0 when there is none
sec_match(sec_data, resolved) ==
    LET hits == {i \in 1..Len(sec_data) :
                   \/ lower(resolved) = normalize_key(sec_data[i].ticker)
                   \/ lower(resolved) = lower(sec_data[i].title)}
    IN  IF hits = {} THEN 0 ELSE CHOOSE i \in hits : \A j \in hits : i <= j

\* resolve_company_name(name)
resolve_company_name(name, amap, last, attempts, cache, t, doc, github, file, fetchEnv) ==
    LET loaded     == load_alias_map(FALSE, amap, last, attempts, t, doc, github, file)
        name_lower == normalize_key(name)
        resolved   == Get(loaded.alias_map, name_lower, name)
        fetched    == fetch_sec_data(cache, fetchEnv)
        hit        == IF fetched.raised THEN 0 ELSE sec_match(fetched.data, resolved)
    IN  IF loaded.kind = "raise"
        THEN [kind |-> "raise", name |-> None, cik |-> None, resolved |-> None,
              alias_map |-> loaded.alias_map, last_load_time |-> loaded.last_load_time,
              load_attempts |-> loaded.load_attempts, sec_cache |-> cache,
              requests |-> loaded.requests, slept |-> 0]
        ELSE IF hit # 0
        THEN [kind |-> "return", name |-> fetched.data[hit].title,
              cik |-> zfill(fetched.data[hit].cik_str, 10), resolved |-> resolved,
              alias_map |-> loaded.alias_map, last_load_time |-> loaded.last_load_time,
              load_attempts |-> loaded.load_attempts, sec_cache |-> fetched.sec_cache,
              requests |-> loaded.requests \o fetched.requests, slept |-> fetched.slept]
        ELSE [kind |-> "raise", name |-> None, cik |-> None, resolved |-> resolved,
              alias_map |-> loaded.alias_map, last_load_time |-> loaded.last_load_time,
              load_attempts |-> loaded.load_attempts, sec_cache |-> fetched.sec_cache,
              requests |-> loaded.requests \o fetched.requests, slept |-> fetched.slept]

\* raw inputs given to resolve_company_name
InputsApi == {S_RH, S_InputMeta, S_AlphabetInc}

InitApi ==
    /\ initialised = FALSE
    /\ CIK_CACHE = <<>>
    /\ ALIAS_MAP = ALIAS_MAP_LITERAL
    /\ NEW_ALIASES = EmptyDict
    /\ ALIAS_TIMESTAMP = EmptyDict
    /\ GITHUB_TOKEN = FALSE
    /\ remoteDoc = REMOTE_ALIAS_DOC
    /\ alias_map = EmptyDict
    /\ last_load_time = 0
    /\ load_attempts = 0
    /\ sec_cache = None
    /\ now = StartTime
    /\ ticks = 0
    /\ calls = 0
    /\ ret = Ret("import", <<>>, "return", None, None, <<>>, <<>>)
    /\ workers = <<>>
    /\ completed = <<>>
    /\ frame = <<>>

\* what GitHub answers to load_alias_map: an outcome of a request, or a 200
\* whose body response.json() cannot read as an object
GithubOutcomes == HttpOutcomes \cup {"200 not JSON"}

\* the alias sources only answer when load_alias_map asks them: GitHub on a
\* cache miss, the local file when GitHub did not answer 200
AliasEnv(force_reload) ==
    IF load_alias_map(force_reload, alias_map, last_load_time, load_attempts, now,
                      remoteDoc, "200", "missing").requests = <<>>
    THEN {<<"-", "-">>}
    ELSE { <<github, file>> \in GithubOutcomes \X (LocalFileStates \cup {"-"}) :
             (file = "-") <=> (github = "200") }

\* the directory server only answers when resolve_company_name gets as far as
\* _fetch_sec_data and the lru_cache is empty
FetchEnvSeen(env) ==
    IF \/ sec_cache # None
       \/ load_alias_map(FALSE, alias_map, last_load_time, load_attempts, now,
                         remoteDoc, env[1], env[2]).kind = "raise"
    THEN {<<>>}
    ELSE FetchEnv

LoadAliasMap ==
    /\ calls < MaxCalls
    /\ \E force_reload \in BOOLEAN :
       \E env \in AliasEnv(force_reload) :
         LET loaded == load_alias_map(force_reload, alias_map, last_load_time,
                                      load_attempts, now, remoteDoc, env[1], env[2])
         IN  /\ alias_map' = loaded.alias_map
             /\ last_load_time' = loaded.last_load_time
             /\ load_attempts' = loaded.load_attempts
             /\ ret' = Ret("load_alias_map",
                           IF force_reload THEN <<"force_reload">> ELSE <<>>,
                           loaded.kind, None, None, loaded.requests, env)
    /\ calls' = calls + 1
    /\ UNCHANGED <<sec_cache, remoteDoc, now, ticks>>
    /\ UNCHANGED legacyVars
    /\ UNCHANGED poolVars

ResolveCompanyName ==
    /\ calls < MaxCalls
    /\ \E name \in InputsApi :
       \E env \in AliasEnv(FALSE) :
       \E fetchEnv \in FetchEnvSeen(env) :
         LET res == resolve_company_name(name, alias_map, last_load_time, load_attempts,
                                         sec_cache, now, remoteDoc, env[1], env[2],
                                         fetchEnv)
         IN  /\ alias_map' = res.alias_map
             /\ last_load_time' = res.last_load_time
             /\ load_attempts' = res.load_attempts
             /\ sec_cache' = res.sec_cache
             /\ now' = now + res.slept
             /\ ret' = Ret("resolve_company_name", name, res.kind, res.cik, res.name,
                           res.requests, env \o fetchEnv)
    /\ calls' = calls + 1
    /\ UNCHANGED <<remoteDoc, ticks>>
    /\ UNCHANGED legacyVars
    /\ UNCHANGED poolVars

\* time passes between two calls: a second less than the cache TTL, or the TTL
TickApi ==
    /\ ticks < MaxTicks
    /\ \E d \in {CACHE_TTL - 1, CACHE_TTL} : now' = now + d
    /\ ticks' = ticks + 1
    /\ UNCHANGED <<alias_map, last_load_time, load_attempts, sec_cache, remoteDoc,
                   calls, ret>>
    /\ UNCHANGED legacyVars
    /\ UNCHANGED poolVars

NextApi ==
    \/ LoadAliasMap
    \/ ResolveCompanyName
    \/ TickApi

SpecApi == InitApi /\ [][NextApi]_vars

(***************************************************************************)
(* src/SECAPI.py and src/utils.py: validate_url, get_actual_filing_url     *)
(***************************************************************************)
\* ".htm"
S_htm == <<".", "h", "t", "m">>
\* "10q"
S_10q == <<"1", "0", "q">>
\* "form"
S_form == <<"f", "o", "r", "m">>
\* "main"
S_main == <<"m", "a", "i", "n">>
\* "index"
S_index == <<"i", "n", "d", "e", "x">>
\* "cover"
S_cover == <<"c", "o", "v", "e", "r">>
\* "summary"
S_summary == <<"s", "u", "m", "m", "a", "r", "y">>
\* "https://www.sec.gov/Archives/edgar/data/"
S_ArchivesUrl == <<"h", "t", "t", "p", "s", ":", "/", "/", "w", "w", "w", ".", "s", "e", "c", ".", "g", "o", "v", "/", "A", "r", "c", "h", "i", "v", "e", "s", "/", "e", "d", "g", "a", "r", "/", "d", "a", "t", "a", "/">>
\* "https://www.sec.gov"
S_SecGov == <<"h", "t", "t", "p", "s", ":", "/", "/", "w", "w", "w", ".", "s", "e", "c", ".", "g", "o", "v">>
\* "index.html"
S_index_html == <<"i", "n", "d", "e", "x", ".", "h", "t", "m", "l">>
\* "Unavailable"
S_Unavailable == <<"U", "n", "a", "v", "a", "i", "l", "a", "b", "l", "e">>
\* "[10-Q Report]("
S_ReportLinkOpen == <<"[", "1", "0", "-", "Q", " ", "R", "e", "p", "o", "r", "t", "]", "(">>
\* ")"
S_ReportLinkClose == <<")">>

\* sub in s
contains(s, sub) ==
    \E i \in 1..(Len(s) - Len(sub) + 1) : SubSeq(s, i, i + Len(sub) - 1) = sub

\* the characters of lowercased hrefs, in code point order
AsciiOrder ==
    <<"-", ".", "/", "0", "1", "2", "3", "4", "5", "6", "7", "8", "9", ":", "_">> \o LowerCase

Ord == [c \in {AsciiOrder[i] : i \in 1..Len(AsciiOrder)} |->
           CHOOSE i \in 1..Len(AsciiOrder) : AsciiOrder[i] = c]

\* a < b on strings
RECURSIVE str_lt(_, _)
str_lt(a, b) ==
    IF b = <<>> THEN FALSE
    ELSE IF a = <<>> THEN TRUE
    ELSE IF Head(a) = Head(b) THEN str_lt(Tail(a), Tail(b))
    ELSE Ord[Head(a)] < Ord[Head(b)]

\* x < y on (score, href) tuples
tuple_lt(x, y) == x[1] < y[1] \/ (x[1] = y[1] /\ str_lt(x[2], y[2]))

\* what a URL answers to the HEAD request and then to the GET request of a
\* probe ("-" when the GET is not sent)
ProbeOutcomes ==
    { <<"200", "-">>, <<"404", "200">>, <<"exception", "404">>, <<"exception", "exception">> }

\* a probe that would take every URL for reachable
validate_url_trusting(url, reach) ==
    [ok |-> TRUE, requests |-> << Req("validate_url HEAD", url, <<3>>) >>]

\* SECAPI.validate_url: HEAD, then a streamed GET when HEAD is not a 200
validate_url(url, reach) ==
    IF reach[url][1] = "200"
    THEN [ok |-> TRUE, requests |-> << Req("validate_url HEAD", url, <<3>>) >>]
    ELSE [ok |-> reach[url][2] = "200",
          requests |-> << Req("validate_url HEAD", url, <<3>>),
                          Req("validate_url GET", url, <<5>>) >>]

\* utils.validate_url: HEAD only
utils_validate_url(url, reach) ==
    [ok |-> reach[url][1] = "200", requests |-> << Req("validate_url HEAD", url, <<2>>) >>]

\* the score of one lowercased href
href_score(href) ==
    (IF contains(href, S_10q) THEN 3 ELSE 0)
    + (IF contains(href, S_form) \/ contains(href, S_main) THEN 2 ELSE 0)
    - (IF contains(href, S_index) \/ contains(href, S_cover) \/ contains(href, S_summary)
       THEN 1 ELSE 0)

\* the candidates loop over soup.find_all("a"); an anchor without href is <<>>
RECURSIVE candidates_of(_)
candidates_of(anchors) ==
    IF anchors = <<>> THEN <<>>
    ELSE LET href == lower(Head(anchors))
         IN  (IF endswith(href, S_htm) THEN << <<href_score(href), href>> >> ELSE <<>>)
             \o candidates_of(Tail(anchors))

\* one insertion of a descending sort: after the elements that are not smaller
RECURSIVE insert_reverse(_, _)
insert_reverse(x, sorted) ==
    IF sorted = <<>> THEN <<x>>
    ELSE IF tuple_lt(Head(sorted), x) THEN <<x>> \o sorted
    ELSE <<Head(sorted)>> \o insert_reverse(x, Tail(sorted))

\* one insertion of an ascending sort
RECURSIVE insert_forward(_, _)
insert_forward(x, sorted) ==
    IF sorted = <<>> THEN <<x>>
    ELSE IF tuple_lt(x, Head(sorted)) THEN <<x>> \o sorted
    ELSE <<Head(sorted)>> \o insert_forward(x, Tail(sorted))

\* candidates.sort() without reverse=True
RECURSIVE sort_forward(_)
sort_forward(cands) ==
    IF cands = <<>> THEN <<>>
    ELSE insert_forward(cands[Len(cands)], sort_forward(SubSeq(cands, 1, Len(cands) - 1)))

\* candidates.sort(reverse=True)
RECURSIVE sort_reverse(_)
sort_reverse(cands) ==
    IF cands = <<>> THEN <<>>
    ELSE insert_reverse(cands[Len(cands)], sort_reverse(SubSeq(cands, 1, Len(cands) - 1)))

\* the validate_url of the module that runs: "SECAPI" or "utils"
validate_url_of(module, url, reach) ==
    IF module = "SECAPI" THEN validate_url(url, reach) ELSE utils_validate_url(url, reach)

\* the loop over the sorted candidates: the first one that validates ends it
RECURSIVE probe_candidates(_, _, _, _)
probe_candidates(module, cands, i, reach) ==
    IF i > Len(cands) THEN [url |-> None, probes |-> <<>>, requests |-> <<>>]
    ELSE LET candidate_url == S_SecGov \o cands[i][2]
             v == validate_url_of(module, candidate_url, reach)
             rest == probe_candidates(module, cands, i + 1, reach)
         IN  IF v.ok
             THEN [url |-> candidate_url, probes |-> << cands[i] >>, requests |-> v.requests]
             ELSE [url |-> rest.url, probes |-> << cands[i] >> \o rest.probes,
                   requests |-> v.requests \o rest.requests]

\* the body both modules share, each with its validate_url: the fast path on the
\* primary document, then the index page (requested without a timeout; an
\* exception or an error status ends the call) and its candidates
filing_url_steps(module, cik, accession, primary_doc, index, page, reach) ==
    LET base_url  == S_ArchivesUrl \o cik \o <<"/">> \o accession \o <<"/">>
        index_url == base_url \o S_index_html
        html_url  == base_url \o primary_doc
        fast      == primary_doc # None /\ primary_doc # <<>> /\ endswith(primary_doc, S_htm)
        first     == IF fast THEN validate_url_of(module, html_url, reach) ELSE [ok |-> FALSE, requests |-> <<>>]
        indexReq  == Req("index_url", index_url, <<>>)
        looped    == probe_candidates(module, sort_reverse(candidates_of(page)), 1, reach)
    IN  IF first.ok
        THEN [url |-> html_url, fast |-> fast, probes |-> <<>>, requests |-> first.requests]
        ELSE IF index # "200"
        THEN [url |-> S_Unavailable, fast |-> fast, probes |-> <<>>,
              requests |-> first.requests \o <<indexReq>>]
        ELSE [url |-> IF looped.url = None THEN S_Unavailable ELSE looped.url,
              fast |-> fast, probes |-> looped.probes,
              requests |-> first.requests \o <<indexReq>> \o looped.requests]

\* SECAPI.get_actual_filing_url
get_actual_filing_url(cik, accession, primary_doc, index, page, reach) ==
    filing_url_steps("SECAPI", cik, accession, primary_doc, index, page, reach)

\* utils.get_actual_filing_url
utils_get_actual_filing_url(cik, accession, primary_doc, index, page, reach) ==
    filing_url_steps("utils", cik, accession, primary_doc, index, page, reach)


(***************************************************************************)
(* src/SECAPI.py: fetch_filing, applied to one filing                      *)
(***************************************************************************)
\* "0001652044-24-000053"
S_Accession == <<"0", "0", "0", "1", "6", "5", "2", "0", "4", "4", "-", "2", "4", "-", "0", "0", "0", "0", "5", "3">>
\* "goog-10q.htm"
S_goog10q == <<"g", "o", "o", "g", "-", "1", "0", "q", ".", "h", "t", "m">>
\* "goog-10q.pdf"
S_googPdf == <<"g", "o", "o", "g", "-", "1", "0", "q", ".", "p", "d", "f">>
\* "/Archives/edgar/data/0001652044/000165204424000053/goog-10q.htm"
H_primary == <<"/", "A", "r", "c", "h", "i", "v", "e", "s", "/", "e", "d", "g", "a", "r", "/", "d", "a", "t", "a", "/", "0", "0", "0", "1", "6", "5", "2", "0", "4", "4", "/", "0", "0", "0", "1", "6", "5", "2", "0", "4", "4", "2", "4", "0", "0", "0", "0", "5", "3", "/", "g", "o", "o", "g", "-", "1", "0", "q", ".", "h", "t", "m">>
\* "/d/form10q.htm"
H_form10q == <<"/", "d", "/", "f", "o", "r", "m", "1", "0", "q", ".", "h", "t", "m">>
\* "/d/main.htm"
H_main == <<"/", "d", "/", "m", "a", "i", "n", ".", "h", "t", "m">>
\* "/d/index.htm"
H_index == <<"/", "d", "/", "i", "n", "d", "e", "x", ".", "h", "t", "m">>
\* "/d/R1.htm"
H_R1 == <<"/", "d", "/", "R", "1", ".", "h", "t", "m">>
\* "/d/cover10q.htm"
H_cover10q == <<"/", "d", "/", "c", "o", "v", "e", "r", "1", "0", "q", ".", "h", "t", "m">>
\* "/d/ex.pdf"
H_pdf == <<"/", "d", "/", "e", "x", ".", "p", "d", "f">>
\* "/d/a.htm"
H_a == <<"/", "d", "/", "a", ".", "h", "t", "m">>
\* "2024-04-26"
S_FilingDate == <<"2", "0", "2", "4", "-", "0", "4", "-", "2", "6">>

\* str.replace("-", "")
RECURSIVE remove_dashes(_)
remove_dashes(s) ==
    IF s = <<>> THEN <<>>
    ELSE (IF Head(s) = "-" THEN <<>> ELSE <<Head(s)>>) \o remove_dashes(Tail(s))

Digits == <<"0", "1", "2", "3", "4", "5", "6", "7", "8", "9">>

\* f"{n}" for a natural number
RECURSIVE str_int(_)
str_int(n) == IF n < 10 THEN <<Digits[n + 1]>> ELSE str_int(n \div 10) \o <<Digits[(n % 10) + 1]>>

\* the primary documents a feed names: an HTML report, a PDF, none
PrimaryDocs == {S_goog10q, S_googPdf, <<>>}

\* the anchors of the filing index pages (<<>> is an anchor without href)
IndexPages ==
    { <<H_index, H_primary, H_a>>,
      <<H_pdf, H_R1, H_main, H_form10q>>,
      <<H_cover10q, <<>>, H_main, H_a, H_R1>>,
      <<>> }

\* what the index page answers: the request raises, an error status, a page
IndexAnswers ==
    { <<"exception", <<>> >>, <<"404", <<>> >> } \cup { <<"200", page>> : page \in IndexPages }

\* the URL of the primary document
filing_html_url(cik, accession, primary_doc) ==
    S_ArchivesUrl \o cik \o <<"/">> \o accession \o <<"/">> \o primary_doc

\* the URLs a call can probe: the primary document when it ends in .htm and
\* the candidates of the index page
probe_urls(cik, accession, primary_doc, page) ==
    (IF endswith(primary_doc, S_htm)
     THEN {filing_html_url(cik, accession, primary_doc)} ELSE {})
    \cup { S_SecGov \o candidates_of(page)[i][2] : i \in 1..Len(candidates_of(page)) }

\* one filing of the feed and what the servers answer about it
UrlCases ==
    UNION { { [cik |-> zfill(D_1652044, 10), accession |-> S_Accession, primary_doc |-> p,
               filing_date |-> S_FilingDate, index |-> ia[1], page |-> ia[2], reach |-> r] :
              r \in [probe_urls(zfill(D_1652044, 10), remove_dashes(S_Accession), p, ia[2])
                        -> ProbeOutcomes] } :
            p \in PrimaryDocs, ia \in IndexAnswers }

\* fetch_filing(index): the report entry of one filing
fetch_filing(index, cik, accession_number, primary_doc, filing_date, idx, page, reach) ==
    LET accession == remove_dashes(accession_number)
        res       == get_actual_filing_url(cik, accession, primary_doc, idx, page, reach)
        html_url  == res.url
        valid     == html_url # <<>> /\ html_url # S_Unavailable
    IN  [report |-> [display_index |-> str_int(index + 1),
                     marker        |-> IF index = 0 THEN "Most Recent" ELSE "Older",
                     filing_date   |-> filing_date,
                     html_url      |-> html_url,
                     html_link     |-> IF valid
                                       THEN S_ReportLinkOpen \o html_url \o S_ReportLinkClose
                                       ELSE S_Unavailable,
                     status        |-> IF valid THEN "Validated" ELSE "Unavailable"],
         fast |-> res.fast, probes |-> res.probes, requests |-> res.requests]

InitUrl ==
    /\ initialised = FALSE
    /\ CIK_CACHE = <<>>
    /\ ALIAS_MAP = ALIAS_MAP_LITERAL
    /\ NEW_ALIASES = EmptyDict
    /\ ALIAS_TIMESTAMP = EmptyDict
    /\ GITHUB_TOKEN = FALSE
    /\ remoteDoc = REMOTE_ALIAS_DOC
    /\ alias_map = EmptyDict
    /\ last_load_time = 0
    /\ load_attempts = 0
    /\ sec_cache = None
    /\ now = StartTime
    /\ ticks = 0
    /\ calls = 0
    /\ ret = Ret("import", <<>>, "return", None, None, <<>>, <<>>)
    /\ workers = <<>>
    /\ completed = <<>>
    /\ frame \in UrlCases

\* SECAPI.fetch_filing on the filing of the frame
FetchFiling ==
    /\ ret.op = "import"
    /\ LET res == fetch_filing(0, frame.cik, frame.accession, frame.primary_doc,
                               frame.filing_date, frame.index, frame.page, frame.reach)
       IN  ret' = [op |-> "fetch_filing", kind |-> "return", url |-> res.report.html_url,
                   report |-> res.report, fast |-> res.fast, probes |-> res.probes,
                   requests |-> res.requests]
    /\ calls' = calls + 1
    /\ UNCHANGED <<now, ticks, remoteDoc>>
    /\ UNCHANGED legacyVars
    /\ UNCHANGED apiVars
    /\ UNCHANGED poolVars

\* utils.get_actual_filing_url on the filing of the frame
UtilsGetActualFilingUrl ==
    /\ ret.op = "import"
    /\ LET res == utils_get_actual_filing_url(frame.cik, remove_dashes(frame.accession),
                                              frame.primary_doc, frame.index, frame.page,
                                              frame.reach)
       IN  ret' = [op |-> "utils.get_actual_filing_url", kind |-> "return", url |-> res.url,
                   fast |-> res.fast, probes |-> res.probes, requests |-> res.requests]
    /\ calls' = calls + 1
    /\ UNCHANGED <<now, ticks, remoteDoc>>
    /\ UNCHANGED legacyVars
    /\ UNCHANGED apiVars
    /\ UNCHANGED poolVars

NextUrl ==
    \/ FetchFiling
    \/ UtilsGetActualFilingUrl

SpecUrl == InitUrl /\ [][NextUrl]_vars


(***************************************************************************)
(* src/SECAPI.py: get_quarterly_filings; src/utils.py:                     *)
(* get_actual_filing_urls.  The four parallel lists of filings.recent are  *)
(* one sequence of entries.                                                *)
(***************************************************************************)
\* "0001652044-23-000094"
S_Accession2 == <<"0", "0", "0", "1", "6", "5", "2", "0", "4", "4", "-", "2", "3", "-", "0", "0", "0", "0", "9", "4">>
\* "0001652044-24-000080"
S_Accession3 == <<"0", "0", "0", "1", "6", "5", "2", "0", "4", "4", "-", "2", "4", "-", "0", "0", "0", "0", "8", "0">>
\* "0001652044-24-000022"
S_Accession4 == <<"0", "0", "0", "1", "6", "5", "2", "0", "4", "4", "-", "2", "4", "-", "0", "0", "0", "0", "2", "2">>
\* "0001652044-24-000081"
S_Accession5 == <<"0", "0", "0", "1", "6", "5", "2", "0", "4", "4", "-", "2", "4", "-", "0", "0", "0", "0", "8", "1">>
\* "goog-2023q3.htm"
S_goog10q2 == <<"g", "o", "o", "g", "-", "2", "0", "2", "3", "q", "3", ".", "h", "t", "m">>
\* "2023-10-25"
S_Date20231025 == <<"2", "0", "2", "3", "-", "1", "0", "-", "2", "5">>
\* "2024-7-24"
S_Date2024724 == <<"2", "0", "2", "4", "-", "7", "-", "2", "4">>
\* "2024-01-31"
S_Date20240131 == <<"2", "0", "2", "4", "-", "0", "1", "-", "3", "1">>
\* "2024/07/24"
S_DateSlashes == <<"2", "0", "2", "4", "/", "0", "7", "/", "2", "4">>

\* the entries a submissions feed can hold: three 10-Q filings with dates
\* "%Y-%m-%d" reads (one without zero padding), a 10-K, and a 10-Q whose
\* date is written with slashes
FeedEntries ==
    { [form |-> "10-Q", accessionNumber |-> S_Accession, primaryDocument |-> S_goog10q,
       filingDate |-> S_FilingDate],
      [form |-> "10-Q", accessionNumber |-> S_Accession2, primaryDocument |-> S_goog10q2,
       filingDate |-> S_Date20231025],
      [form |-> "10-Q", accessionNumber |-> S_Accession3, primaryDocument |-> S_googPdf,
       filingDate |-> S_Date2024724],
      [form |-> "10-K", accessionNumber |-> S_Accession4, primaryDocument |-> S_goog10q,
       filingDate |-> S_Date20240131],
      [form |-> "10-Q", accessionNumber |-> S_Accession5, primaryDocument |-> S_goog10q,
       filingDate |-> S_DateSlashes] }

\* the feeds: up to MaxFilings entries, none twice
Feeds ==
    UNION { { f \in [1..n -> FeedEntries] : \A i, j \in 1..n : f[i] = f[j] => i = j } :
            n \in 0..MaxFilings }

DigitValue == [c \in {Digits[i] : i \in 1..10} |-> (CHOOSE i \in 1..10 : Digits[i] = c) - 1]

IsDigits(s) == s # <<>> /\ \A i \in 1..Len(s) : s[i] \in DOMAIN DigitValue

\* int(s) for a string of digits
RECURSIVE to_int(_)
to_int(s) == IF s = <<>> THEN 0 ELSE 10 * to_int(SubSeq(s, 1, Len(s) - 1)) + DigitValue[s[Len(s)]]

\* s.split(sep)
RECURSIVE split(_, _)
split(s, sep) ==
    IF \A i \in 1..Len(s) : s[i] # sep THEN <<s>>
    ELSE LET i == CHOOSE x \in 1..Len(s) : s[x] = sep /\ \A y \in 1..(x - 1) : s[y] # sep
         IN  <<SubSeq(s, 1, i - 1)>> \o split(SubSeq(s, i + 1, Len(s)), sep)

days_in_month(y, m) ==
    IF m = 2 THEN (IF (y % 4 = 0 /\ y % 100 # 0) \/ y % 400 = 0 THEN 29 ELSE 28)
    ELSE IF m \in {4, 6, 9, 11} THEN 30 ELSE 31

\* datetime.strptime(s, "%Y-%m-%d"): four digits, one or two digits, one or
\* two digits, a date of the calendar; everything else raises ValueError.
\* key orders the dates.
strptime_ymd(s) ==
    LET f == split(s, "-")
        wellFormed == /\ Len(f) = 3
                      /\ \A i \in 1..3 : IsDigits(f[i])
                      /\ Len(f[1]) = 4 /\ Len(f[2]) \in {1, 2} /\ Len(f[3]) \in {1, 2}
        y == to_int(f[1])
        m == to_int(f[2])
        d == to_int(f[3])
    IN  IF wellFormed /\ m \in 1..12 /\ d >= 1 /\ d <= days_in_month(y, m)
        THEN [ok |-> TRUE, key |-> y * 10000 + m * 100 + d]
        ELSE [ok |-> FALSE, key |-> 0]

\* the all_10q loop: (filing_date, i) for every 10-Q entry whose date parses;
\* i counts from 0
all_10q_of(feed) ==
    { <<strptime_ymd(feed[n].filingDate).key, n - 1>> :
        n \in {x \in 1..Len(feed) :
                  feed[x].form = "10-Q" /\ strptime_ymd(feed[x].filingDate).ok} }

\* all_10q.sort(reverse=True): date descending, index descending on ties
RECURSIVE sorted_reverse(_)
sorted_reverse(pairs) ==
    IF pairs = {} THEN <<>>
    ELSE LET top == CHOOSE x \in pairs :
                       \A y \in pairs : x[1] > y[1] \/ (x[1] = y[1] /\ x[2] >= y[2])
         IN  <<top>> \o sorted_reverse(pairs \ {top})

\* top_indices = [i for _, i in all_10q[:count]]
top_indices_of(feed, count) ==
    LET all_10q == sorted_reverse(all_10q_of(feed))
        n == IF count < Len(all_10q) THEN count ELSE Len(all_10q)
    IN  [k \in 1..n |-> all_10q[k][2]]

\* [f.result() for f in as_completed(futures)]: the results in the order in
\* which the tasks finished
as_completed_results(tasks, order) == [k \in 1..Len(order) |-> tasks[order[k]].result]

\* the results taken in the order in which the tasks finished, the order of
\* the arguments not restored
results_as_finished(tasks, order) == [k \in 1..Len(order) |-> tasks[order[k]].result]

\* list(executor.map(fetch_filing, top_indices)): the results in the order of
\* the arguments
executor_map_results(tasks, order) == [k \in 1..Len(tasks) |-> tasks[k].result]

\* the loop that renumbers the reports
renumber(reports) ==
    [i \in 1..Len(reports) |->
        [reports[i] EXCEPT !.display_index = str_int(i),
                           !.marker = IF i = 1 THEN "Most Recent" ELSE "Older"]]

\* an exception raised inside a task of the pool
Raised(msg) == [raised |-> msg]
IsRaised(result) == "raised" \in DOMAIN result

\* a response of get_quarterly_filings; extra is "error", "note" or "-"
Response(company_name, cik, filings, extra, requests) ==
    [op |-> "get_quarterly_filings", kind |-> "return", company_name |-> company_name,
     cik |-> cik, filings |-> filings, cached_quarterlies |-> <<>>, extra |-> extra,
     requests |-> requests]


\* what the servers answer about one filing in a batch: every URL validates
\* (1); the primary document fails and the candidates validate by GET (2); the
\* primary document fails and the index request raises (3)
BatchChoices == 1..3

batch_answer(choice, cik, accession, primary_doc) ==
    LET page == <<H_pdf, H_R1, H_main, H_form10q>>
        html_url == filing_html_url(cik, accession, primary_doc)
    IN  IF choice = 1
        THEN [index |-> "200", page |-> page,
              reach |-> [u \in probe_urls(cik, accession, primary_doc, page) |->
                           <<"200", "-">>]]
        ELSE IF choice = 2
        THEN [index |-> "200", page |-> page,
              reach |-> [u \in probe_urls(cik, accession, primary_doc, page) |->
                           IF u = html_url THEN <<"exception", "404">> ELSE <<"404", "200">>]]
        ELSE [index |-> "exception", page |-> <<>>,
              reach |-> [u \in probe_urls(cik, accession, primary_doc, <<>>) |->
                           <<"exception", "exception">>]]

\* the calls explored. get_quarterly_filings: the name asked for and what the
\* directory server answers, the count, what the submissions server answers
\* and the feed. utils.get_actual_filing_urls: the form type, what the
\* submissions server answers and the feed
FeedAnswers == { <<"exception", <<>> >>, <<"404", <<>> >> } \cup { <<"200", f>> : f \in Feeds }

\* the parallel arrays of a feed that can lack their last element (short
\* names the array, "-" when the arrays have one length)
ShortArrays == {"accessionNumber", "primaryDocument", "filingDate"}

\* the entries whose date the all_10q loop reads: filing_dates[i] raises
\* IndexError for the last entry of a feed with a short filingDate array, and
\* the bare except skips the entry
dated_entries(feed, short) ==
    IF short = "filingDate" THEN SubSeq(feed, 1, Len(feed) - 1) ELSE feed

\* fetch_filing(index) raises IndexError before any request when
\* accession_numbers or primary_docs has no element at index
index_error(feed, short, index) ==
    short \in {"accessionNumber", "primaryDocument"} /\ index + 1 = Len(feed)

FilingCases ==
    { [stage |-> "idle", call |-> "get_quarterly_filings", company_name |-> rc[1],
       fetchEnv |-> rc[2], count |-> c, feedStatus |-> fa[1], feed |-> fa[2],
       matched_name |-> None, cik |-> None, top_indices |-> <<>>, requests |-> <<>>,
       short |-> "-"] :
        rc \in { <<S_AlphabetInc, <<"200">> >>,
                 <<S_AlphabetInc, <<"exception", "exception", "exception">> >> },
        c \in 1..MaxCount,
        fa \in FeedAnswers }
    \cup
    { [stage |-> "idle", call |-> "get_quarterly_filings", company_name |-> S_AlphabetInc,
       fetchEnv |-> <<"200">>, count |-> MaxCount, feedStatus |-> "200", feed |-> f,
       matched_name |-> None, cik |-> None, top_indices |-> <<>>, requests |-> <<>>,
       short |-> a] :
        f \in Feeds \ {<<>>}, a \in ShortArrays }
    \cup
    { [stage |-> "idle", call |-> "utils.get_actual_filing_urls", company_name |-> None,
       fetchEnv |-> <<>>, count |-> 4, feedStatus |-> fa[1], feed |-> fa[2],
       matched_name |-> None, cik |-> D_1652044, top_indices |-> <<>>, requests |-> <<>>,
       short |-> "-"] :
        fa \in FeedAnswers }

InitFilings ==
    /\ initialised = FALSE
    /\ CIK_CACHE = <<>>
    /\ ALIAS_MAP = ALIAS_MAP_LITERAL
    /\ NEW_ALIASES = EmptyDict
    /\ ALIAS_TIMESTAMP = EmptyDict
    /\ GITHUB_TOKEN = TRUE
    /\ remoteDoc = REMOTE_ALIAS_DOC
    /\ alias_map = EmptyDict
    /\ last_load_time = 0
    /\ load_attempts = 0
    /\ sec_cache = None
    /\ now = StartTime
    /\ ticks = 0
    /\ calls = 0
    /\ ret = Ret("import", <<>>, "return", None, None, <<>>, <<>>)
    /\ workers = <<>>
    /\ completed = <<>>
    /\ frame \in FilingCases

\* get_quarterly_filings up to the thread pool: the resolution, the feed, the
\* selection of the filings; every early return ends the call here
GetQuarterlies ==
    /\ frame.stage = "idle"
    /\ frame.call = "get_quarterly_filings"
    /\ LET res == resolve_company_name(frame.company_name, alias_map, last_load_time,
                                       load_attempts, sec_cache, now, remoteDoc,
                                       "200", "-", frame.fetchEnv)
           feedReq == Req("submissions", res.cik, <<>>)
           top == top_indices_of(dated_entries(frame.feed, frame.short), frame.count)
       IN  /\ alias_map' = res.alias_map
           /\ last_load_time' = res.last_load_time
           /\ load_attempts' = res.load_attempts
           /\ sec_cache' = res.sec_cache
           /\ now' = now + res.slept
           /\ IF res.kind = "raise"
              THEN /\ ret' = Response(frame.company_name, None, <<>>, "error", res.requests)
                   /\ frame' = [frame EXCEPT !.stage = "returned"]
                   /\ workers' = <<>>
              ELSE IF frame.feedStatus = "exception"
              THEN /\ ret' = Response(frame.company_name, res.cik, <<>>, "error",
                                      res.requests \o <<feedReq>>)
                   /\ frame' = [frame EXCEPT !.stage = "returned"]
                   /\ workers' = <<>>
              ELSE IF frame.feedStatus # "200"
              THEN /\ ret' = Response(res.name, res.cik, <<>>, "error",
                                      res.requests \o <<feedReq>>)
                   /\ frame' = [frame EXCEPT !.stage = "returned"]
                   /\ workers' = <<>>
              ELSE IF top = <<>>
              THEN /\ ret' = Response(res.name, res.cik, <<>>, "note",
                                      res.requests \o <<feedReq>>)
                   /\ frame' = [frame EXCEPT !.stage = "returned"]
                   /\ workers' = <<>>
              ELSE /\ ret' = ret
                   /\ frame' = [frame EXCEPT !.stage = "running", !.matched_name = res.name,
                                             !.cik = res.cik, !.top_indices = top,
                                             !.requests = res.requests \o <<feedReq>>]
                   /\ workers' = [k \in 1..Len(top) |->
                                     [pc |-> "queued", index |-> top[k], result |-> None,
                                      requests |-> <<>>]]
    /\ calls' = calls + 1
    /\ UNCHANGED <<remoteDoc, ticks, completed>>
    /\ UNCHANGED legacyVars

\* one task of the pool: fetch_filing(top_indices[k]) runs to its end. The
\* tasks share no state, so a task is one step and the tasks finish in any
\* order, whatever the number of pool threads (min(len(top_indices), 10))
RunFetchFiling(k) ==
    /\ frame.stage = "running"
    /\ workers[k].pc = "queued"
    /\ LET index == workers[k].index
           entry == frame.feed[index + 1]
       IN  \E choice \in BatchChoices :
             LET ans == batch_answer(choice, frame.cik,
                                     remove_dashes(entry.accessionNumber),
                                     entry.primaryDocument)
                 res == fetch_filing(index, frame.cik, entry.accessionNumber,
                                     entry.primaryDocument, entry.filingDate,
                                     ans.index, ans.page, ans.reach)
             IN  workers' = [workers EXCEPT ![k] =
                                IF index_error(frame.feed, frame.short, index)
                                THEN [pc |-> "done", index |-> index,
                                      result |-> Raised("list index out of range"),
                                      requests |-> <<>>]
                                ELSE [pc |-> "done", index |-> index, result |-> res.report,
                                      requests |-> res.requests]]
    /\ completed' = Append(completed, k)
    /\ UNCHANGED <<now, ticks, calls, ret, remoteDoc, frame>>
    /\ UNCHANGED legacyVars
    /\ UNCHANGED apiVars

\* all the requests of the tasks, in the order of the tasks
RECURSIVE task_requests(_, _)
task_requests(tasks, n) ==
    IF n = 0 THEN <<>> ELSE task_requests(tasks, n - 1) \o tasks[n].requests

\* get_quarterly_filings after the pool: the results are collected and
\* renumbered, the pending aliases are pushed, the response is returned
CollectFilings ==
    /\ frame.stage = "running"
    /\ \A k \in 1..Len(workers) : workers[k].pc = "done"
    /\ \E env \in PushEnvSeen :
         LET quarterly_reports == renumber(executor_map_results(workers, completed))
             pushed == push_new_aliases_to_github(NEW_ALIASES, GITHUB_TOKEN, remoteDoc,
                                                  env[1], env[2], env[3])
         IN  IF \E k \in 1..Len(workers) : IsRaised(workers[k].result)
             THEN \* executor.map hands the exception of the task on; the except
                  \* branch of get_quarterly_filings answers
                  /\ remoteDoc' = remoteDoc
                  /\ ret' = Response(frame.company_name, frame.cik, <<>>, "error",
                                     frame.requests \o task_requests(workers, Len(workers)))
             ELSE /\ remoteDoc' = pushed.remoteDoc
                  /\ ret' = Response(frame.matched_name, frame.cik, quarterly_reports, "-",
                                     frame.requests \o task_requests(workers, Len(workers))
                                         \o pushed.requests)
    /\ frame' = [frame EXCEPT !.stage = "returned"]
    /\ UNCHANGED <<now, ticks, calls, workers, completed>>
    /\ UNCHANGED legacyVars
    /\ UNCHANGED apiVars

\* sorted(all_filings, key=filing_date, reverse=True): one stable insertion
RECURSIVE insert_by_date(_, _)
insert_by_date(x, sorted) ==
    IF sorted = <<>> THEN <<x>>
    ELSE IF str_lt(Head(sorted).filing_date, x.filing_date) THEN <<x>> \o sorted
    ELSE <<Head(sorted)>> \o insert_by_date(x, Tail(sorted))

RECURSIVE sorted_by_date_reverse(_)
sorted_by_date_reverse(all_filings) ==
    IF all_filings = <<>> THEN <<>>
    ELSE insert_by_date(all_filings[Len(all_filings)],
                        sorted_by_date_reverse(SubSeq(all_filings, 1, Len(all_filings) - 1)))

\* the loop of utils.get_actual_filing_urls over the first n entries of the
\* feed; choices[i] selects what the servers answer about entry i
RECURSIVE utils_all_filings(_, _, _, _, _)
utils_all_filings(cik, form_type, feed, choices, n) ==
    IF n = 0 THEN [filings |-> <<>>, requests |-> <<>>]
    ELSE LET before == utils_all_filings(cik, form_type, feed, choices, n - 1)
             accession == remove_dashes(feed[n].accessionNumber)
             ans == batch_answer(choices[n], cik, accession, feed[n].primaryDocument)
             res == utils_get_actual_filing_url(cik, accession, feed[n].primaryDocument,
                                                ans.index, ans.page, ans.reach)
         IN  IF feed[n].form = form_type
             THEN [filings  |-> Append(before.filings,
                                       [filing_date |-> feed[n].filingDate,
                                        html_report |-> res.url]),
                   requests |-> before.requests \o res.requests]
             ELSE before

\* utils.get_actual_filing_urls(cik, form_type)
utils_get_actual_filing_urls(cik, form_type, feedStatus, feed, choices) ==
    LET feedReq == Req("submissions", zfill(cik, 10), <<>>)
        all == utils_all_filings(cik, form_type, feed, choices, Len(feed))
        sorted == sorted_by_date_reverse(all.filings)
    IN  IF feedStatus # "200"
        THEN [filings |-> <<>>, requests |-> <<feedReq>>]
        ELSE [filings  |-> SubSeq(sorted, 1, IF Len(sorted) < 4 THEN Len(sorted) ELSE 4),
              requests |-> <<feedReq>> \o all.requests]

\* one answer per entry of the requested form; the entries that are skipped
\* are not asked about
UtilsChoices(form_type, feed) ==
    { c \in [1..Len(feed) -> BatchChoices] :
        \A n \in 1..Len(feed) : feed[n].form # form_type => c[n] = 3 }

UtilsGetActualFilingUrls ==
    /\ frame.stage = "idle"
    /\ frame.call = "utils.get_actual_filing_urls"
    /\ \E form_type \in {"10-Q", "10-K"} :
       \E choices \in UtilsChoices(form_type, frame.feed) :
         LET res == utils_get_actual_filing_urls(frame.cik, form_type, frame.feedStatus,
                                                 frame.feed, choices)
         IN  ret' = [op |-> "utils.get_actual_filing_urls", kind |-> "return",
                     input |-> form_type, filings |-> res.filings, extra |-> "-",
                     requests |-> res.requests]
    /\ frame' = [frame EXCEPT !.stage = "returned"]
    /\ calls' = calls + 1
    /\ UNCHANGED <<now, ticks, remoteDoc, workers, completed>>
    /\ UNCHANGED legacyVars
    /\ UNCHANGED apiVars

NextFilings ==
    \/ GetQuarterlies
    \/ \E k \in 1..MaxFilings : k <= Len(workers) /\ RunFetchFiling(k)
    \/ CollectFilings
    \/ UtilsGetActualFilingUrls

SpecFilings == InitFilings /\ [][NextFilings]_vars

(***************************************************************************)
(* app/api/agents/agent1_fetch_sec.py: extract_10q_sections                *)
(* A document is a sequence of nodes: a text element (tag "p") with its    *)
(* text, or a table with its rows of cells                                 *)
(***************************************************************************)
\* "item"
S_item == <<"i", "t", "e", "m">>
\* "note"
S_note == <<"n", "o", "t", "e">>
\* "item 1"
S_item_1 == <<"i", "t", "e", "m", " ", "1">>
\* "item 1a"
S_item_1a == <<"i", "t", "e", "m", " ", "1", "a">>
\* "item 2"
S_item_2 == <<"i", "t", "e", "m", " ", "2">>
\* "item 2a"
S_item_2a == <<"i", "t", "e", "m", " ", "2", "a">>
\* "PART 1"
T_Part1 == <<"P", "A", "R", "T", " ", "1">>
\* "Part II"
T_PartII == <<"P", "a", "r", "t", " ", "I", "I">>
\* "Item 1. Statements (Note 2)"
T_Item1 == <<"I", "t", "e", "m", " ", "1", ".", " ", "S", "t", "a", "t", "e", "m", "e", "n", "t", "s", " ", "(", "N", "o", "t", "e", " ", "2", ")">>
\* "ITEM 2. MD&A"
T_Item2 == <<"I", "T", "E", "M", " ", "2", ".", " ", "M", "D", "&", "A">>
\* "Note 2: Leases"
T_Note2 == <<"N", "o", "t", "e", " ", "2", ":", " ", "L", "e", "a", "s", "e", "s">>
\* "Revenue"
C_Revenue == <<"R", "e", "v", "e", "n", "u", "e">>
\* "100"
C_100 == <<"1", "0", "0">>

\* str.startswith(prefix)
startswith(s, prefix) == Len(s) >= Len(prefix) /\ SubSeq(s, 1, Len(prefix)) = prefix

Letters == {UpperCase[i] : i \in 1..26} \cup {LowerCase[i] : i \in 1..26}
DigitChars == {Digits[i] : i \in 1..10}
SpaceChars == {" ", "\t", "\n"}

\* sep.join(strs)
RECURSIVE join(_, _)
join(strs, sep) ==
    IF strs = <<>> THEN <<>>
    ELSE IF Len(strs) = 1 THEN strs[1]
    ELSE strs[1] \o sep \o join(Tail(strs), sep)

\* a greedy character class: the first position from p on whose character is
\* not in chars
RECURSIVE skip(_, _, _)
skip(s, p, chars) == IF p <= Len(s) /\ s[p] \in chars THEN skip(s, p + 1, chars) ELSE p

\* the first position from p on whose character is in chars
RECURSIVE skip_until(_, _, _)
skip_until(s, p, chars) == IF p <= Len(s) /\ s[p] \notin chars THEN skip_until(s, p + 1, chars) ELSE p

\* an optional character of a class
skip_one(s, p, chars) == IF p <= Len(s) /\ s[p] \in chars THEN p + 1 ELSE p

\* a literal (given in lower case) at position p, with re.IGNORECASE
literal_at(s, p, lit) ==
    /\ p + Len(lit) - 1 <= Len(s)
    /\ lower(SubSeq(s, p, p + Len(lit) - 1)) = lit

\* text.split(): the words between runs of whitespace
RECURSIVE split_ws(_, _)
split_ws(s, p) ==
    LET a == skip(s, p, SpaceChars)
        b == skip_until(s, a, SpaceChars)
    IN  IF a > Len(s) THEN <<>> ELSE <<SubSeq(s, a, b - 1)>> \o split_ws(s, b)

\* the strings of a node, as BeautifulSoup's get_text walks them: an empty
\* element has no string
RECURSIVE row_strings(_)
row_strings(cells) ==
    IF cells = <<>> THEN <<>>
    ELSE (IF Head(cells) = <<>> THEN <<>> ELSE <<Head(cells)>>) \o row_strings(Tail(cells))

RECURSIVE table_strings(_)
table_strings(rows) ==
    IF rows = <<>> THEN <<>> ELSE row_strings(Head(rows)) \o table_strings(Tail(rows))

node_strings(node) ==
    IF node.tag = "table" THEN table_strings(node.rows)
    ELSE IF node.text = <<>> THEN <<>> ELSE <<node.text>>

RECURSIVE html_strings(_)
html_strings(html) ==
    IF html = <<>> THEN <<>> ELSE node_strings(Head(html)) \o html_strings(Tail(html))

\* soup.get_text(separator=" ") followed by ' '.join(text.split())
get_text(html) == join(split_ws(join(html_strings(html), <<" ">>), 1), <<" ">>)

\* r'(Item\s*\d+[A-Z]?\.?\s*[A-Za-z\s\-&]*)' with re.IGNORECASE, tried at
\* position p: the position after the match, 0 when there is no match
item_header_end(text, p) ==
    LET a == skip(text, p + Len(S_item), SpaceChars)
        b == skip(text, a, DigitChars)
        c == skip_one(text, b, Letters)
        d == skip_one(text, c, {"."})
        e == skip(text, d, SpaceChars)
        f == skip(text, e, Letters \cup SpaceChars \cup {"-", "&"})
    IN  IF literal_at(text, p, S_item) /\ b > a THEN f ELSE 0

\* re.finditer over the headers, from position p on
RECURSIVE item_headers(_, _)
item_headers(text, p) ==
    IF p > Len(text) THEN <<>>
    ELSE IF item_header_end(text, p) # 0
    THEN <<[start |-> p, end |-> item_header_end(text, p)]>>
             \o item_headers(text, item_header_end(text, p))
    ELSE item_headers(text, p + 1)

\* d[k] = v on a dict kept in insertion order
dict_set(items, k, v) ==
    IF \E i \in 1..Len(items) : items[i].key = k
    THEN [i \in 1..Len(items) |-> IF items[i].key = k THEN [key |-> k, value |-> v] ELSE items[i]]
    ELSE Append(items, [key |-> k, value |-> v])

\* the sections dict after the first n headers
RECURSIVE sections_of(_, _, _)
sections_of(text, headers, n) ==
    IF n = 0 THEN <<>>
    ELSE LET match == headers[n]
             end == IF n < Len(headers) THEN headers[n + 1].start - 1 ELSE Len(text)
             header == strip(SubSeq(text, match.start, match.end - 1))
         IN  dict_set(sections_of(text, headers, n - 1), lower(header),
                      strip(SubSeq(text, match.start, end)))

\* the keys the loop over sections assigns from: those that start with prefix
\* and not with excluded
item_keys(sections, prefix, excluded) ==
    { i \in 1..Len(sections) :
        startswith(sections[i].key, prefix) /\ ~startswith(sections[i].key, excluded) }

\* the value left by the loop: the last assignment, '' when there was none
item_of(sections, prefix, excluded) ==
    LET hits == item_keys(sections, prefix, excluded)
    IN  IF hits = {} THEN <<>>
        ELSE sections[CHOOSE i \in hits : \A j \in hits : j <= i].value

\* r'Note\s*\d+' with re.IGNORECASE, tried at position p
note_ref_end(s, p) ==
    LET a == skip(s, p + Len(S_note), SpaceChars)
        b == skip(s, a, DigitChars)
    IN  IF literal_at(s, p, S_note) /\ b > a THEN b ELSE 0

\* the first position from p on where r'Note\s*\d+' matches, Len(s) + 1 when none
RECURSIVE next_note(_, _)
next_note(s, p) ==
    IF p > Len(s) THEN Len(s) + 1
    ELSE IF note_ref_end(s, p) # 0 THEN p ELSE next_note(s, p + 1)

\* re.findall(r'(Note\s*\d+.*?)(?=Note\s*\d+|$)', text, re.IGNORECASE)
RECURSIVE all_notes_of(_, _)
all_notes_of(text, p) ==
    LET start == next_note(text, p)
        end == next_note(text, note_ref_end(text, start))
    IN  IF start > Len(text) THEN <<>>
        ELSE <<SubSeq(text, start, end - 1)>> \o all_notes_of(text, end)

\* set(re.findall(r'Note\s*\d+', s, re.IGNORECASE))
RECURSIVE note_refs(_, _)
note_refs(s, p) ==
    LET start == next_note(s, p)
    IN  IF start > Len(s) THEN {}
        ELSE {SubSeq(s, start, note_ref_end(s, start) - 1)} \cup note_refs(s, note_ref_end(s, start))

\* the notes kept: those that contain a reference made in item1 + item2
RECURSIVE referenced(_, _)
referenced(all_notes, refs) ==
    IF all_notes = <<>> THEN <<>>
    ELSE (IF \E ref \in refs : contains(Head(all_notes), ref) THEN <<Head(all_notes)>> ELSE <<>>)
             \o referenced(Tail(all_notes), refs)

\* _extract_referenced_notes(text, item1, item2, extraction_notes)
extract_referenced_notes(text, item1, item2) ==
    LET notes == referenced(all_notes_of(text, 1), note_refs(item1 \o item2, 1))
    IN  [notes_text |-> join(notes, <<"\n", "\n">>),
         extraction_notes |-> IF notes = <<>> THEN <<"No referenced notes found">> ELSE <<>>]

\* r'Item\s*1\.?' (digit "1") or r'Item\s*2\.?' (digit "2") with
\* re.IGNORECASE, tried at position p: the position after the match, 0 when
\* there is no match
item_n_end(s, p, digit) ==
    LET a == skip(s, p + Len(S_item), SpaceChars)
    IN  IF literal_at(s, p, S_item) /\ a <= Len(s) /\ s[a] = digit
        THEN skip_one(s, a + 1, {"."}) ELSE 0

\* the first position from p on where it matches, Len(s) + 1 when none
RECURSIVE find_item_n(_, _, _)
find_item_n(s, p, digit) ==
    IF p > Len(s) THEN Len(s) + 1
    ELSE IF item_n_end(s, p, digit) # 0 THEN p ELSE find_item_n(s, p + 1, digit)

\* the text elements of the document in which the pattern matches (the cells
\* of the tables explored hold no "Item")
nodes_with_item(html, from, digit) ==
    { n \in from..Len(html) :
        html[n].tag = "p" /\ find_item_n(html[n].text, 1, digit) <= Len(html[n].text) }

\* group 2 of r'(Item\s*1\.?[^<]{0,30})(.*?)(Item\s*2\.?|$)' on the document:
\* the nodes that lie wholly between the end of group 1 and the start of
\* group 3; the whole document when "Item 1" is nowhere
item1_html(html) ==
    LET starts == nodes_with_item(html, 1, "1")
        n == CHOOSE x \in starts : \A y \in starts : x <= y
        text == html[n].text
        header == item_n_end(text, find_item_n(text, 1, "1"), "1")
        rest == Len(text) - header + 1
        resume == header + (IF rest < 30 THEN rest ELSE 30)
        ends == nodes_with_item(html, n + 1, "2")
        m == IF ends = {} THEN Len(html) + 1 ELSE CHOOSE x \in ends : \A y \in ends : x <= y
    IN  IF starts = {} THEN html
        ELSE IF find_item_n(text, resume, "2") <= Len(text) THEN <<>>
        ELSE SubSeq(html, n + 1, m - 1)

\* [td.get_text(separator=" ", strip=True) for td in tr.find_all(['td', 'th'])]
cells_of(tr) == [i \in 1..Len(tr) |-> strip(tr[i])]

\* rows.append(','.join(cells)) for every tr
rows_of(table) == [i \in 1..Len(table.rows) |-> join(cells_of(table.rows[i]), <<",">>)]

\* table_text = '\n'.join(rows)
table_text_of(table) == join(rows_of(table), <<"\n">>)

\* the loop over item1_soup.find_all('table')
RECURSIVE item1_tables_of(_)
item1_tables_of(nodes) ==
    IF nodes = <<>> THEN <<>>
    ELSE (IF Head(nodes).tag = "table" /\ strip(table_text_of(Head(nodes))) # <<>>
          THEN <<table_text_of(Head(nodes))>> ELSE <<>>) \o item1_tables_of(Tail(nodes))

\* _extract_tables_from_item1(html, item1, extraction_notes)
extract_tables_from_item1(html, item1) ==
    LET item1_tables == item1_tables_of(item1_html(html))
    IN  IF item1 = <<>>
        THEN [item1_tables |-> <<>>, extraction_notes |-> <<"No Item 1 section found">>]
        ELSE [item1_tables |-> item1_tables,
              extraction_notes |-> IF item1_tables # <<>> THEN <<"Extracted tables">>
                                   ELSE <<"No tables found">>]

\* extract_10q_sections(html, extraction_notes): the dict returned and the
\* notes appended to extraction_notes
extract_10q_sections(html) ==
    LET text == get_text(html)
        headers == item_headers(text, 1)
        sections == sections_of(text, headers, Len(headers))
        item1 == item_of(sections, S_item_1, S_item_1a)
        item2 == item_of(sections, S_item_2, S_item_2a)
        found == [i \in 1..Len(sections) |->
                    (IF i \in item_keys(sections, S_item_1, S_item_1a)
                     THEN <<"Item 1 extracted">> ELSE <<>>)
                    \o (IF i \in item_keys(sections, S_item_2, S_item_2a)
                        THEN <<"Item 2 extracted">> ELSE <<>>)]
        tables == extract_tables_from_item1(html, item1)
        notes == extract_referenced_notes(text, item1, item2)
    IN  [result |-> [item1 |-> item1, item2 |-> item2, notes |-> notes.notes_text,
                     item1_tables |-> tables.item1_tables],
         extraction_notes |->
             join(found, <<>>)
             \o (IF item1 = <<>> THEN <<"Item 1 not found">> ELSE <<>>)
             \o (IF item2 = <<>> THEN <<"Item 2 not found">> ELSE <<>>)
             \o tables.extraction_notes \o notes.extraction_notes]

\* the nodes documents are made of: part and item headers, a note, and tables:
\* one row of two empty cells, one row of one blank cell, a row of figures
\* followed by a row of empty cells
P(text) == [tag |-> "p", text |-> text]
Table(rows) == [tag |-> "table", rows |-> rows]

TableEmptyCells == Table(<< <<<<>>, <<>>>> >>)
TableBlankCell == Table(<< << <<" ">> >> >>)
TableFigures == Table(<< <<C_Revenue, C_100>>, <<<<>>, <<>>>> >>)

Nodes == {P(T_Part1), P(T_PartII), P(T_Item1), P(T_Item2), P(T_Note2),
          TableEmptyCells, TableBlankCell, TableFigures}

\* the documents: up to MaxBlocks nodes
Documents == UNION { [1..n -> Nodes] : n \in 0..MaxBlocks }

InitExtract ==
    /\ initialised = FALSE
    /\ CIK_CACHE = <<>>
    /\ ALIAS_MAP = ALIAS_MAP_LITERAL
    /\ NEW_ALIASES = EmptyDict
    /\ ALIAS_TIMESTAMP = EmptyDict
    /\ GITHUB_TOKEN = FALSE
    /\ remoteDoc = REMOTE_ALIAS_DOC
    /\ alias_map = EmptyDict
    /\ last_load_time = 0
    /\ load_attempts = 0
    /\ sec_cache = None
    /\ now = StartTime
    /\ ticks = 0
    /\ calls = 0
    /\ ret = Ret("import", <<>>, "return", None, None, <<>>, <<>>)
    /\ workers = <<>>
    /\ completed = <<>>
    /\ frame \in { [html |-> d] : d \in Documents }

Extract10qSections ==
    /\ ret.op = "import"
    /\ LET res == extract_10q_sections(frame.html)
       IN  ret' = [op |-> "extract_10q_sections", kind |-> "return", input |-> frame.html,
                   result |-> res.result, extraction_notes |-> res.extraction_notes,
                   requests |-> <<>>]
    /\ calls' = calls + 1
    /\ UNCHANGED <<now, ticks, remoteDoc, workers, completed, frame>>
    /\ UNCHANGED legacyVars
    /\ UNCHANGED apiVars

NextExtract == Extract10qSections

SpecExtract == InitExtract /\ [][NextExtract]_vars

(***************************************************************************)
(* app/api/agents/agent3_profile_people.py: profile_people                 *)
(***************************************************************************)
\* the people and the titles given to profile_people: up to MaxPeople names,
\* and no titles argument (None), or a list no longer than the people
PeopleLists == UNION { [1..n -> {"Jane Doe", "John Roe"}] : n \in 0..MaxPeople }

TitleLists(people) ==
    {None} \cup UNION { [1..n -> {"CFO", "CIO"}] : n \in 0..Len(people) }

ProfileCases ==
    UNION { { [stage |-> "idle", people |-> p, titles |-> t] : t \in TitleLists(p) } :
            p \in PeopleLists }

\* titles = titles or [None] * len(people)
titles_or_none(people, titles) ==
    IF titles = None \/ titles = <<>> THEN [i \in 1..Len(people) |-> None] ELSE titles

\* titles[i] if i < len(titles) else None (i counts from 1 here)
title_at(titles, i) == IF i <= Len(titles) THEN titles[i] ELSE None

\* build_profile(person, title): the profile, or the error profile when an
\* enrichment call raises
build_profile(person, title, outcome) ==
    IF outcome = "ok"
    THEN [name |-> person, title |-> title, error |-> None, signals |-> <<>>]
    ELSE [name |-> person, title |-> title, error |-> "Agent 3 profiling failed",
          signals |-> <<"Agent 3 profiling failed">>]

InitProfiles ==
    /\ initialised = FALSE
    /\ CIK_CACHE = <<>>
    /\ ALIAS_MAP = ALIAS_MAP_LITERAL
    /\ NEW_ALIASES = EmptyDict
    /\ ALIAS_TIMESTAMP = EmptyDict
    /\ GITHUB_TOKEN = FALSE
    /\ remoteDoc = REMOTE_ALIAS_DOC
    /\ alias_map = EmptyDict
    /\ last_load_time = 0
    /\ load_attempts = 0
    /\ sec_cache = None
    /\ now = StartTime
    /\ ticks = 0
    /\ calls = 0
    /\ ret = Ret("import", <<>>, "return", None, None, <<>>, <<>>)
    /\ workers = <<>>
    /\ completed = <<>>
    /\ frame \in ProfileCases

\* profile_people up to the submission of the tasks; without people it
\* returns at once
ProfilePeople ==
    /\ frame.stage = "idle"
    /\ IF frame.people = <<>>
       THEN /\ ret' = [op |-> "profile_people", kind |-> "return",
                       profiles |-> <<[error |-> "No people provided for profiling."]>>,
                       requests |-> <<>>]
            /\ frame' = [frame EXCEPT !.stage = "returned"]
            /\ workers' = <<>>
       ELSE /\ ret' = ret
            /\ frame' = [frame EXCEPT !.stage = "running"]
            /\ workers' = [i \in 1..Len(frame.people) |->
                             [pc |-> "queued", person |-> frame.people[i],
                              title |-> title_at(titles_or_none(frame.people, frame.titles), i),
                              result |-> None]]
    /\ calls' = calls + 1
    /\ UNCHANGED <<now, ticks, remoteDoc, completed>>
    /\ UNCHANGED legacyVars
    /\ UNCHANGED apiVars

\* one task of the pool: build_profile runs to its end
BuildProfile(k) ==
    /\ frame.stage = "running"
    /\ workers[k].pc = "queued"
    /\ \E outcome \in {"ok", "raise"} :
         workers' = [workers EXCEPT ![k].pc = "done",
                                    ![k].result = build_profile(workers[k].person,
                                                                workers[k].title, outcome)]
    /\ completed' = Append(completed, k)
    /\ UNCHANGED <<now, ticks, calls, ret, remoteDoc, frame>>
    /\ UNCHANGED legacyVars
    /\ UNCHANGED apiVars

\* the loop over as_completed(future_to_person) and the return: as_completed
\* yields the futures as they finish
CollectProfiles ==
    /\ frame.stage = "running"
    /\ \A k \in 1..Len(workers) : workers[k].pc = "done"
    /\ ret' = [op |-> "profile_people", kind |-> "return",
               profiles |-> as_completed_results(workers, completed), requests |-> <<>>]
    /\ frame' = [frame EXCEPT !.stage = "returned"]
    /\ UNCHANGED <<now, ticks, calls, remoteDoc, workers, completed>>
    /\ UNCHANGED legacyVars
    /\ UNCHANGED apiVars

NextProfiles ==
    \/ ProfilePeople
    \/ \E k \in 1..MaxPeople : k <= Len(workers) /\ BuildProfile(k)
    \/ CollectProfiles

SpecProfiles == InitProfiles /\ [][NextProfiles]_vars

(***************************************************************************)
(* app/api/run_pipeline.py: run_pipeline, with app/api/memory_schema.py    *)
(* and app/api/prompt_builder.py. A text is a sequence of tokens; a Python *)
(* value carries its type                                                  *)
(***************************************************************************)
Dict(items) == [type |-> "dict", items |-> items]
List(items) == [type |-> "list", items |-> items]
Exc(msg) == [type |-> "exception", msg |-> msg]
\* None where a dict, a list or a model is expected
NoneValue == [type |-> "none"]

\* d.get(k), None when the key is missing
dict_get(d, k) == IF k \in DOMAIN d.items THEN d.items[k] ELSE None

\* the outcomes of analyze_financials: a complete analysis, an analysis that
\* lacks required fields, the error dict, an exception raised in the thread
valid_agent2 ==
    Dict([financial_summary |-> <<"Strong growth.">>,
          key_metrics_table |-> << [quarter |-> "Q1 2024",
                                    items |-> << [metric |-> "Revenue", value |-> "$1M"] >>] >>,
          recent_events_summary |-> <<"IPO completed.">>,
          suggested_graph |-> None,
          questions_to_ask |-> << <<"What are the risks?">> >>,
          raw_tables |-> <<>>])

Agent2Outcomes ==
    { valid_agent2,
      Dict([bad |-> <<"data">>]),
      Dict([error |-> <<"Input validation failed">>, raw_tables |-> <<>>]),
      Exc("analyze_financials raised") }

\* the outcomes of profile_people for the people given: the profiles (in the
\* order given or not), the error list, a list of unusable dicts, an exception
profile_of(person) ==
    Dict([name |-> person, title |-> <<"CFO">>, signals |-> << <<"Google result">> >>])

Agent3Outcomes(people) ==
    (IF people = <<>>
     THEN { List(<< Dict([error |-> <<"No people provided for profiling.">>]) >>) }
     ELSE { List([i \in 1..Len(people) |-> profile_of(people[i])]),
            List([i \in 1..Len(people) |-> profile_of(people[Len(people) + 1 - i])]) })
    \cup { List(<< Dict([bad |-> <<"data">>]) >>), List(<<>>), Exc("profile_people raised") }

\* the outcomes of analyze_company: an analysis, the error dict (the function
\* catches every exception), a dict that lacks required fields
valid_agent4 ==
    Dict([threats |-> << <<"Competition">> >>, opportunities |-> << <<"Expansion">> >>,
          competitive_landscape |-> <<>>, macroeconomic_factors |-> << <<"Inflation">> >>,
          questions_to_ask |-> << <<"How will you respond?">> >>])

Agent4Outcomes ==
    { valid_agent4,
      Dict([error |-> <<"Agent 4 - Market analysis failed">>]),
      Dict([bad |-> <<"data">>]) }

\* analyze_private_company always returns the five sections
PrivateOutcomes ==
    { Dict([company_overview |-> <<"Overview">>, recent_news |-> <<"News">>,
            key_people |-> <<"People">>, industry_positioning |-> <<"Industry">>,
            risks_opportunities |-> <<"Risks">>]),
      Dict([company_overview |-> <<"[ERROR] Private company analysis failed">>,
            recent_news |-> <<>>, key_people |-> <<>>, industry_positioning |-> <<>>,
            risks_opportunities |-> <<>>]) }

\* the outcomes of fetch_10q: filings, no filings, the error dict, filings
\* together with an error
Filing == Dict([filing_date |-> <<"2024-01-01">>, extracted_sections |-> Dict([item1 |-> <<"Balance Sheet">>])])
FilingNoSections == Dict([filing_date |-> <<"2024-01-01">>, extracted_sections |-> NoneValue])

Agent1Outcomes ==
    { Dict([company_name |-> <<"TestCo">>, cik |-> <<"123">>, filings |-> <<Filing>>]),
      Dict([company_name |-> <<"TestCo">>, cik |-> <<"123">>, filings |-> <<FilingNoSections>>]),
      Dict([company_name |-> <<"TestCo">>, cik |-> <<"123">>, filings |-> <<>>]),
      Dict([error |-> <<"Agent 1 - SEC data fetch failed">>]),
      Dict([error |-> <<"SECAPI failed">>, filings |-> <<Filing>>]) }

\* Agent2Financials(**d), or model_validate of a value that is not a dict:
\* the model, or the validation error
Agent2Financials(x) ==
    IF /\ x.type = "dict"
       /\ {"financial_summary", "key_metrics_table", "recent_events_summary",
           "questions_to_ask"} \subseteq DOMAIN x.items
    THEN [ok |-> TRUE,
          model |-> [financial_summary |-> x.items.financial_summary,
                     key_metrics_table |-> x.items.key_metrics_table,
                     recent_events_summary |-> x.items.recent_events_summary,
                     suggested_graph |-> dict_get(x, "suggested_graph"),
                     questions_to_ask |-> x.items.questions_to_ask]]
    ELSE [ok |-> FALSE, model |-> NoneValue]

\* profile = people_profiles[0] if it is a non-empty list, else people_profiles
first_profile(people_profiles) ==
    IF people_profiles.type = "list" /\ people_profiles.items # <<>>
    THEN people_profiles.items[1] ELSE people_profiles

\* Agent3Profile(name=profile.get("name"), ...): name is required
Agent3Profile(profile) ==
    IF profile.type = "dict" /\ "name" \in DOMAIN profile.items
    THEN [ok |-> TRUE,
          model |-> [name |-> profile.items.name, title |-> dict_get(profile, "title"),
                     signals |-> IF "signals" \in DOMAIN profile.items
                                 THEN profile.items.signals ELSE <<>>,
                     engagement_style |-> dict_get(profile, "engagement_style")]]
    ELSE [ok |-> FALSE, model |-> NoneValue]

\* Agent4RiskMap(**d)
Agent4RiskMap(x) ==
    IF /\ x.type = "dict"
       /\ {"threats", "opportunities", "competitive_landscape", "macroeconomic_factors",
           "questions_to_ask"} \subseteq DOMAIN x.items
    THEN [ok |-> TRUE,
          model |-> [threats |-> x.items.threats, opportunities |-> x.items.opportunities,
                     competitive_landscape |-> x.items.competitive_landscape,
                     macroeconomic_factors |-> x.items.macroeconomic_factors,
                     questions_to_ask |-> x.items.questions_to_ask]]
    ELSE [ok |-> FALSE, model |-> NoneValue]

\* f"Agent {n} output invalid: {e}"
agent2_invalid == <<"Agent 2 output invalid: ", "validation error">>
agent3_invalid == <<"Agent 3 output invalid: ", "validation error">>
agent4_invalid == <<"Agent 4 output invalid: ", "validation error">>

\* "\n- ".join(texts)
RECURSIVE join_bullets(_)
join_bullets(texts) ==
    IF texts = <<>> THEN <<>>
    ELSE IF Len(texts) = 1 THEN texts[1]
    ELSE texts[1] \o <<"\n- ">> \o join_bullets(Tail(texts))

\* the metrics of a table (the code sorts them; the tables explored hold one
\* metric), and the value of a metric in a quarter
RECURSIVE metric_names(_)
metric_names(items) ==
    IF items = <<>> THEN {} ELSE {Head(items).metric} \cup metric_names(Tail(items))

RECURSIVE metric_value(_, _)
metric_value(items, m) ==
    IF items = <<>> THEN ""
    ELSE IF items[Len(items)].metric = m THEN items[Len(items)].value
    ELSE metric_value(SubSeq(items, 1, Len(items) - 1), m)

RECURSIVE table_row(_, _, _)
table_row(table, m, q) ==
    IF q > Len(table) THEN <<"\n">>
    ELSE <<metric_value(table[q].items, m), " | ">> \o table_row(table, m, q + 1)

RECURSIVE table_rows(_, _)
table_rows(table, metrics) ==
    IF metrics = {} THEN <<>>
    ELSE LET m == CHOOSE x \in metrics : TRUE
         IN  <<"| ", m, " | ">> \o table_row(table, m, 1) \o table_rows(table, metrics \ {m})

\* format_table(table_dict)
format_table(table) ==
    IF table = <<>> THEN <<"No data available.">>
    ELSE <<"| Metric | ">>
         \o join_bullets([q \in 1..Len(table) |-> <<table[q].quarter>>])
         \o <<" |\n">>
         \o [q \in 1..(Len(table) + 1) |-> "|---"] \o <<"|\n">>
         \o table_rows(table, UNION { metric_names(table[q].items) : q \in 1..Len(table) })

\* x or 'Not specified'
or_not_specified(x) == IF x = None \/ x = <<>> THEN <<"Not specified">> ELSE x

\* build_agent_1_prompt(agent_2_data, agent_3_data, agent_4_data,
\* additional_context, is_public, private_company_analysis, enforce_title)
build_agent_1_prompt(a2, a3, a4, additional_context, is_public, private_company_analysis, enforce_title) ==
    <<"You are an executive assistant AI", "Additional context from user (pre-meeting):">>
    \o <<"- First meeting: ">> \o or_not_specified(dict_get(additional_context, "first_meeting"))
    \o <<"- User knowledge: ">> \o or_not_specified(dict_get(additional_context, "user_knowledge"))
    \o <<"- Proposed solutions: ">>
    \o or_not_specified(dict_get(additional_context, "proposed_solutions"))
    \o <<"- Wants messaging help: ">>
    \o or_not_specified(dict_get(additional_context, "messaging_help"))
    \o (IF is_public THEN <<>>
        ELSE <<"This company appears to be private.", "Private Company Analysis:">>
             \o (IF private_company_analysis.type = "none" THEN <<"No additional data found.">>
                 ELSE private_company_analysis.items.company_overview))
    \o <<"### Agent 2: Financial Overview ###", "Summary:">> \o a2.financial_summary
    \o <<"Key Metrics Table (render as markdown):">> \o format_table(a2.key_metrics_table)
    \o <<"Events:">> \o a2.recent_events_summary
    \o <<"Questions:\n- ">> \o join_bullets(a2.questions_to_ask)
    \o <<"### Agent 3: Executive Profile ###", "Name: ">> \o a3.name
    \o <<"Title: ">> \o or_not_specified(a3.title)
    \o (IF enforce_title /\ a3.title # None /\ a3.title # <<>>
        THEN <<"Do not change or infer a different title for the contact.">> \o a3.title
        ELSE <<>>)
    \o <<"Signals:\n- ">> \o join_bullets(a3.signals)
    \o <<"Engagement Style: ">> \o or_not_specified(a3.engagement_style)
    \o <<"### Agent 4: Market, Risk, and Opportunity ###", "Threats:\n- ">>
    \o join_bullets(a4.threats)
    \o <<"Opportunities:\n- ">> \o join_bullets(a4.opportunities)
    \o <<"Competitors:">> \o (IF a4.competitive_landscape = <<>> THEN <<"[]">> ELSE <<"[...]">>)
    \o <<"Macroeconomic Factors:\n- ">> \o join_bullets(a4.macroeconomic_factors)
    \o <<"Strategic Questions:\n- ">> \o join_bullets(a4.questions_to_ask)
    \o <<"### Your Task ###">>

\* the requests explored: the company (a name, or blank), the people (none,
\* one, two, or one blank name), the meeting context (a text, or empty)
S_TestCo == <<"T", "e", "s", "t", "C", "o">>
S_JaneDoe == <<"J", "a", "n", "e", " ", "D", "o", "e">>
S_JohnRoe == <<"J", "o", "h", "n", " ", "R", "o", "e">>
S_QuarterlyReview == <<"Q", "u", "a", "r", "t", "e", "r", "l", "y">>

PipelineRequests ==
    { [stage |-> "idle", company |-> c, people |-> p, meeting_context |-> m,
       additional_context |-> Dict([first_meeting |-> <<"yes">>]), titles |-> <<>>,
       sec_data |-> NoneValue, is_public |-> FALSE, financial_analysis |-> NoneValue,
       people_profiles |-> NoneValue, company_analysis |-> NoneValue,
       private_company_analysis |-> NoneValue] :
        c \in {S_TestCo, <<" ">>},
        p \in {<<>>, <<S_JaneDoe>>, <<S_JaneDoe, S_JohnRoe>>, << <<" ">> >>},
        m \in {S_QuarterlyReview, <<>>} }

InitPipeline ==
    /\ initialised = FALSE
    /\ CIK_CACHE = <<>>
    /\ ALIAS_MAP = ALIAS_MAP_LITERAL
    /\ NEW_ALIASES = EmptyDict
    /\ ALIAS_TIMESTAMP = EmptyDict
    /\ GITHUB_TOKEN = FALSE
    /\ remoteDoc = REMOTE_ALIAS_DOC
    /\ alias_map = EmptyDict
    /\ last_load_time = 0
    /\ load_attempts = 0
    /\ sec_cache = None
    /\ now = StartTime
    /\ ticks = 0
    /\ calls = 0
    /\ ret = Ret("import", <<>>, "return", None, None, <<>>, <<>>)
    /\ workers = <<>>
    /\ completed = <<>>
    /\ frame \in PipelineRequests

\* raise HTTPException(status_code, detail)
HTTPException(status_code, detail) ==
    [op |-> "run_pipeline", kind |-> "raise", status |-> status_code,
     body |-> [detail |-> detail], requests |-> <<>>]

\* a function handed to asyncio.to_thread, not yet picked up by a thread
Task(agent, args) == [agent |-> agent, pc |-> "scheduled", args |-> args, result |-> NoneValue]

\* the test on the filings alone
has_filings(sec_data) ==
    "filings" \in DOMAIN sec_data.items /\ sec_data.items.filings # <<>>

\* bool(sec_data.get("filings")) and not sec_data.get("error")
is_public_of(sec_data) ==
    /\ "filings" \in DOMAIN sec_data.items
    /\ sec_data.items.filings # <<>>
    /\ "error" \notin DOMAIN sec_data.items

\* filings[0]["extracted_sections"] when there is one, else {}
extracted_sections_of(sec_data) ==
    LET filings == sec_data.items.filings
    IN  IF filings # <<>> /\ dict_get(filings[1], "extracted_sections").type = "dict"
        THEN filings[1].items.extracted_sections ELSE Dict(<<>>)

\* run_pipeline from the request to the first await: the validation of the
\* input, the call of fetch_10q, the tasks handed over
RunPipelineBegin ==
    /\ frame.stage = "idle"
    /\ calls' = calls + 1
    /\ IF strip(frame.company) = <<>>
       THEN /\ ret' = HTTPException(400, "Missing or invalid 'company' field.")
            /\ frame' = [frame EXCEPT !.stage = "returned"]
            /\ UNCHANGED <<workers, completed>>
       ELSE IF \E i \in 1..Len(frame.people) : strip(frame.people[i]) = <<>>
       THEN /\ ret' = HTTPException(400, "'people' must be a non-empty list of non-empty strings.")
            /\ frame' = [frame EXCEPT !.stage = "returned"]
            /\ UNCHANGED <<workers, completed>>
       ELSE IF strip(frame.meeting_context) = <<>>
       THEN /\ ret' = HTTPException(400, "Missing or invalid 'meeting_context' field.")
            /\ frame' = [frame EXCEPT !.stage = "returned"]
            /\ UNCHANGED <<workers, completed>>
       ELSE \E sec_data \in Agent1Outcomes :
              /\ ret' = ret
              /\ completed' = << <<"start", "agent1">>, <<"finish", "agent1">> >>
              /\ IF is_public_of(sec_data)
                 THEN /\ frame' = [frame EXCEPT !.stage = "gather", !.sec_data = sec_data,
                                                !.is_public = TRUE]
                      /\ workers' = << Task("agent2", <<extracted_sections_of(sec_data),
                                                        frame.additional_context>>),
                                       Task("agent3", <<frame.people, frame.company,
                                                        frame.titles>>) >>
                 ELSE /\ frame' = [frame EXCEPT
                                     !.stage = "private", !.sec_data = sec_data,
                                     !.is_public = FALSE,
                                     !.financial_analysis =
                                         Dict([error |-> <<"No SEC filings found. Company appears to be private.">>])]
                      /\ workers' = << Task("agent3", <<frame.people, frame.company,
                                                        frame.titles>>) >>
    /\ UNCHANGED <<now, ticks, remoteDoc>>
    /\ UNCHANGED legacyVars
    /\ UNCHANGED apiVars

\* a thread of the default executor picks a task up
ThreadStart(k) ==
    /\ workers[k].pc = "scheduled"
    /\ workers' = [workers EXCEPT ![k].pc = "running"]
    /\ completed' = Append(completed, <<"start", workers[k].agent>>)
    /\ UNCHANGED <<now, ticks, calls, ret, remoteDoc, frame>>
    /\ UNCHANGED legacyVars
    /\ UNCHANGED apiVars

\* what the function of a task may return or raise
AgentOutcomes(task) ==
    IF task.agent = "agent2" THEN Agent2Outcomes
    ELSE IF task.agent = "agent3" THEN Agent3Outcomes(task.args[1])
    ELSE IF task.agent = "agent4" THEN Agent4Outcomes
    ELSE PrivateOutcomes

\* the function of a task returns or raises
ThreadFinish(k) ==
    /\ workers[k].pc = "running"
    /\ \E result \in AgentOutcomes(workers[k]) :
         workers' = [workers EXCEPT ![k].pc = "done", ![k].result = result]
    /\ completed' = Append(completed, <<"finish", workers[k].agent>>)
    /\ UNCHANGED <<now, ticks, calls, ret, remoteDoc, frame>>
    /\ UNCHANGED legacyVars
    /\ UNCHANGED apiVars

\* one of the tasks handed over is done
SomeDone == \E k \in 1..Len(workers) : workers[k].pc = "done"

\* every task handed over so far is done
AllDone == \A k \in 1..Len(workers) : workers[k].pc = "done"

\* the result of the task of an agent
ResultOf(agent) == workers[CHOOSE k \in 1..Len(workers) : workers[k].agent = agent].result

\* asyncio.gather(*tasks, return_exceptions=True) returns: the context of
\* Agent 4 is prepared and Agent 4 is handed over
GatherReturns ==
    /\ frame.stage = "gather"
    /\ AllDone
    /\ LET financial_analysis == ResultOf("agent2")
           people_profiles == ResultOf("agent3")
           agent2_summary == IF financial_analysis.type = "dict"
                             THEN dict_get(financial_analysis, "financial_summary") ELSE None
           agent3_profile == first_profile(people_profiles)
       IN  /\ frame' = [frame EXCEPT !.stage = "agent4",
                                     !.financial_analysis = financial_analysis,
                                     !.people_profiles = people_profiles]
           /\ workers' = Append(workers, Task("agent4", <<frame.company, frame.meeting_context,
                                                          agent2_summary, agent3_profile>>))
    /\ UNCHANGED <<now, ticks, calls, ret, remoteDoc, completed>>
    /\ UNCHANGED legacyVars
    /\ UNCHANGED apiVars

\* the private-company workflow: the awaits of lines 88-90, one after the
\* other; an exception of a task reaches the outer except
PrivateAwait ==
    /\ frame.stage = "private"
    /\ AllDone
    /\ Len(workers) < 3
    /\ LET last == workers[Len(workers)]
       IN  IF last.result.type = "exception"
           THEN /\ ret' = HTTPException(500, last.result.msg)
                /\ frame' = [frame EXCEPT !.stage = "returned"]
                /\ workers' = workers
           ELSE /\ ret' = ret
                /\ frame' = frame
                /\ workers' = Append(workers,
                                     IF Len(workers) = 1
                                     THEN Task("agent4", <<frame.company, frame.meeting_context>>)
                                     ELSE Task("private", <<frame.company,
                                                            frame.meeting_context,
                                                            frame.additional_context>>))
    /\ UNCHANGED <<now, ticks, calls, remoteDoc, completed>>
    /\ UNCHANGED legacyVars
    /\ UNCHANGED apiVars

\* the answers of the synthesis call: a briefing, or an exception
SynthesisOutcomes == { List(<<"Synthesized briefing.">>), Exc("synthesis failed") }

\* lines 91-166 on the results of the agents: the validation of the outputs,
\* the meta-prompt, the synthesis call and the response
final_output_of(f, financial_analysis, people_profiles, company_analysis, private_company_analysis, synthesis) ==
    LET a2 == Agent2Financials(financial_analysis)
        a3 == Agent3Profile(first_profile(people_profiles))
        a4 == Agent4RiskMap(company_analysis)
        agent4_fallback == [threats |-> <<agent4_invalid>>, opportunities |-> <<>>,
                            competitive_landscape |-> <<>>, macroeconomic_factors |-> <<>>,
                            questions_to_ask |-> <<>>]
        meta_prompt ==
            build_agent_1_prompt(
                IF a2.ok THEN a2.model
                ELSE [financial_summary |-> agent2_invalid, key_metrics_table |-> <<>>,
                      recent_events_summary |-> <<>>, questions_to_ask |-> <<>>,
                      suggested_graph |-> None],
                IF a3.ok THEN a3.model
                ELSE [name |-> IF f.people # <<>> THEN f.people[1] ELSE <<"Unknown">>,
                      title |-> None, signals |-> <<agent3_invalid>>,
                      engagement_style |-> None],
                IF a4.ok THEN a4.model ELSE agent4_fallback,
                f.additional_context, f.is_public, private_company_analysis, TRUE)
        executive_briefing ==
            IF synthesis.type = "exception"
            THEN <<"[SYNTHESIS LLM ERROR] ", synthesis.msg>> \o meta_prompt
            ELSE synthesis.items
    IN  [company |-> f.company, meeting_context |-> f.meeting_context,
         is_public |-> f.is_public, sec_data |-> f.sec_data,
         financial_analysis |-> financial_analysis, people_profiles |-> people_profiles,
         market_analysis |-> company_analysis,
         private_company_analysis |-> private_company_analysis,
         executive_briefing |-> executive_briefing]

\* the last await returns and run_pipeline runs to its return
RunPipelineEnd ==
    /\ \/ frame.stage = "agent4"
       \/ frame.stage = "private" /\ Len(workers) = 3
    /\ AllDone
    /\ \E synthesis \in SynthesisOutcomes :
         LET people_profiles == IF frame.is_public THEN frame.people_profiles
                                ELSE ResultOf("agent3")
             company_analysis == ResultOf("agent4")
             private_company_analysis == IF frame.is_public THEN NoneValue
                                         ELSE ResultOf("private")
         IN  /\ ret' = [op |-> "run_pipeline", kind |-> "return", status |-> 200,
                        body |-> final_output_of(frame, frame.financial_analysis,
                                                 people_profiles, company_analysis,
                                                 private_company_analysis, synthesis),
                        requests |-> <<>>]
             /\ frame' = [frame EXCEPT !.stage = "returned",
                                       !.people_profiles = people_profiles,
                                       !.company_analysis = company_analysis,
                                       !.private_company_analysis = private_company_analysis]
    /\ UNCHANGED <<now, ticks, calls, remoteDoc, workers, completed>>
    /\ UNCHANGED legacyVars
    /\ UNCHANGED apiVars

NextPipeline ==
    \/ RunPipelineBegin
    \/ \E k \in 1..3 : k <= Len(workers) /\ ThreadStart(k)
    \/ \E k \in 1..3 : k <= Len(workers) /\ ThreadFinish(k)
    \/ GatherReturns
    \/ PrivateAwait
    \/ RunPipelineEnd

SpecPipeline == InitPipeline /\ [][NextPipeline]_vars

(***************************************************************************)
(* app/api/agents/agent2_analyze_financials.py: analyze_financials. A      *)
(* table, a column label and a cell are strings of characters; a note and  *)
(* a message are sequences of tokens                                       *)
(***************************************************************************)
\* "Gross Margin"
S_GrossMargin == <<"G", "r", "o", "s", "s", " ", "M", "a", "r", "g", "i", "n">>
\* "Net Income"
S_NetIncome == <<"N", "e", "t", " ", "I", "n", "c", "o", "m", "e">>
\* "Cost of Goods Sold"
S_CostOfGoodsSold == <<"C", "o", "s", "t", " ", "o", "f", " ", "G", "o", "o", "d", "s", " ", "S", "o", "l", "d">>
\* "Debt to Equity Ratio"
S_DebtToEquityRatio == <<"D", "e", "b", "t", " ", "t", "o", " ", "E", "q", "u", "i", "t", "y", " ", "R", "a", "t", "i", "o">>
\* "Liquidity Ratio"
S_LiquidityRatio == <<"L", "i", "q", "u", "i", "d", "i", "t", "y", " ", "R", "a", "t", "i", "o">>
\* "Quarter"
S_Quarter == <<"Q", "u", "a", "r", "t", "e", "r">>
\* "total revenue"
S_total_revenue == <<"t", "o", "t", "a", "l", " ", "r", "e", "v", "e", "n", "u", "e">>
\* "Row "
S_RowSpace == <<"R", "o", "w", " ">>
\* "Not Provided"
S_NotProvided == <<"N", "o", "t", " ", "P", "r", "o", "v", "i", "d", "e", "d">>
\* "Q1"
S_Q1 == <<"Q", "1">>
\* "Q2"
S_Q2 == <<"Q", "2">>
\* "100"
\* "10"
S_10 == <<"1", "0">>

REQUIRED_METRICS ==
    <<C_Revenue, S_GrossMargin, S_NetIncome, S_CostOfGoodsSold, S_DebtToEquityRatio,
      S_LiquidityRatio>>

\* a JSON or Python string where other types may stand
Str(s) == [type |-> "str", s |-> s]

\* d.get(k, default)
dict_get_or(d, k, default) == IF k \in DOMAIN d.items THEN d.items[k] ELSE default

\* bool(x) of a typed value
truthy(x) ==
    CASE x.type = "none" -> FALSE
      [] x.type = "str" -> x.s # <<>>
      [] x.type = "dict" -> DOMAIN x.items # {}
      [] x.type = "list" -> x.items # <<>>
      [] OTHER -> TRUE

\* [row.split(',') for row in table.split('\n') if row.strip()]
RECURSIVE rows_split(_)
rows_split(lines) ==
    IF lines = <<>> THEN <<>>
    ELSE (IF strip(Head(lines)) # <<>> THEN <<split(Head(lines), ",")>> ELSE <<>>)
         \o rows_split(Tail(lines))

\* filing_tables: the rows of every table of item1_tables
filing_tables_of(item1_tables) ==
    [i \in 1..Len(item1_tables) |-> rows_split(split(item1_tables[i], "\n"))]

\* a pandas DataFrame: its column labels and its rows, one value per column
DataFrame(columns, rows) == [columns |-> columns, rows |-> rows]

\* metric.lower() in str(col).lower()
metric_in(metric, col) == contains(lower(col), lower(metric))

\* the cells (row, column) that the loops of _extract_metrics_from_df visit
\* for a metric
metric_cells(df, metric) ==
    {c \in (1..Len(df.rows)) \X (1..Len(df.columns)) : metric_in(metric, df.columns[c[2]])}

\* quarter = str(row[0]) if df.columns[0] != c else f"Row {idx+1}"
quarter_of(df, i, j) ==
    IF df.columns[1] # df.columns[j] THEN df.rows[i][1] ELSE S_RowSpace \o str_int(i)

\* the (quarter, metric) entries a DataFrame writes into metrics_data
df_keys(df) ==
    UNION {{<<quarter_of(df, c[1], c[2]), REQUIRED_METRICS[k]>> :
              c \in metric_cells(df, REQUIRED_METRICS[k])} : k \in DOMAIN REQUIRED_METRICS}

\* the cell whose value stays in metrics_data[quarter][metric]: the last one
\* the loops over rows and columns assign
last_cell(df, quarter, metric) ==
    LET cells == {c \in metric_cells(df, metric) : quarter_of(df, c[1], c[2]) = quarter}
    IN  CHOOSE c \in cells :
          \A d \in cells : d[1] < c[1] \/ (d[1] = c[1] /\ d[2] <= c[2])

\* _extract_metrics_from_df: metrics_data maps (quarter, metric) to a value
extract_metrics_from_df(df, metrics_data, metrics_found) ==
    [data  |-> [p \in (DOMAIN metrics_data) \cup df_keys(df) |->
                  IF p \in df_keys(df)
                  THEN LET c == last_cell(df, p[1], p[2]) IN df.rows[c[1]][c[2]]
                  ELSE metrics_data[p]],
     found |-> metrics_found \cup
                 {REQUIRED_METRICS[k] : k \in {k \in DOMAIN REQUIRED_METRICS :
                     \E j \in 1..Len(df.columns) : metric_in(REQUIRED_METRICS[k], df.columns[j])}}]

\* for df in dfs
RECURSIVE extract_metrics_from_dfs(_, _)
extract_metrics_from_dfs(dfs, acc) ==
    IF dfs = <<>> THEN acc
    ELSE extract_metrics_from_dfs(Tail(dfs),
                                  extract_metrics_from_df(Head(dfs), acc.data, acc.found))

\* a required metric was found
some_found(metrics_found) == metrics_found # {}

\* len(metrics_found) == len(REQUIRED_METRICS)
all_found(metrics_found) == Cardinality(metrics_found) = Len(REQUIRED_METRICS)

\* the loop of extract_metrics_from_html_tables from table i on; read_html[i]
\* is what pd.read_html answers for table i: an exception or DataFrames
RECURSIVE extract_metrics_from_html_tables(_, _, _, _)
extract_metrics_from_html_tables(html_tables, read_html, i, acc) ==
    IF i > Len(html_tables) THEN acc
    ELSE IF read_html[i].type = "exception"
    THEN extract_metrics_from_html_tables(html_tables, read_html, i + 1, acc)
    ELSE LET acc2 == extract_metrics_from_dfs(read_html[i].items, acc)
         IN  IF all_found(acc2.found) THEN acc2
             ELSE extract_metrics_from_html_tables(html_tables, read_html, i + 1, acc2)

\* the nested dict {quarter: {metric: value}} of metrics_data
nested(metrics_data) ==
    Dict([q \in {p[1] : p \in DOMAIN metrics_data} |->
            Dict([m \in {p[2] : p \in {p \in DOMAIN metrics_data : p[1] = q}} |->
                    Str(metrics_data[<<q, m>>])])])

\* the row of one quarter: every required metric, "Not Provided" when absent
required_row(metrics) ==
    [m \in {REQUIRED_METRICS[k] : k \in DOMAIN REQUIRED_METRICS} |->
       IF metrics.type = "dict" /\ m \in DOMAIN metrics.items
       THEN metrics.items[m] ELSE Str(S_NotProvided)]

\* q = entry.get("quarter") or entry.get("Quarter")
entry_quarter(entry) ==
    IF "quarter" \in DOMAIN entry.items /\ truthy(entry.items.quarter) THEN entry.items.quarter
    ELSE dict_get_or(entry, "Quarter", NoneValue)

\* the entries of a list table that carry a quarter
quarter_entries(table) ==
    {i \in 1..Len(table.items) : truthy(entry_quarter(table.items[i]))}

\* normalize_key_metrics_table; an entry of a list table holds its metric
\* keys in the field metrics
normalize_key_metrics_table(table) ==
    IF ~truthy(table) THEN Dict(<<>>)
    ELSE IF table.type = "dict"
    THEN Dict([q \in DOMAIN table.items |-> Dict(required_row(table.items[q]))])
    ELSE IF table.type = "list"
    THEN Dict([q \in {entry_quarter(table.items[i]).s : i \in quarter_entries(table)} |->
                 LET i == CHOOSE i \in quarter_entries(table) :
                            /\ entry_quarter(table.items[i]).s = q
                            /\ \A j \in quarter_entries(table) :
                                 entry_quarter(table.items[j]).s = q => j <= i
                 IN  Dict(required_row(dict_get_or(table.items[i], "metrics", NoneValue)))])
    ELSE Dict(<<>>)

\* the lines of an LLM answer that open or close a code block: three
\* backquotes, with or without the word json
Fences == {"[fence]", "[fence]json"}

\* extract_json_from_llm_output on the lines of the answer
extract_json_from_llm_output(output) ==
    IF output # <<>> /\ output[1] \in Fences
    THEN LET lines == Tail(output)
         IN  IF lines # <<>> /\ lines[Len(lines)] \in Fences
             THEN SubSeq(lines, 1, Len(lines) - 1) ELSE lines
    ELSE output

\* the JSON documents an answer can hold, and what json.loads makes of them
JsonDocuments ==
    [full      |-> Dict([financial_summary |-> Str(<<"LLM fallback">>),
                         key_metrics_table |->
                            Dict([q \in {S_Q1} |-> Dict([m \in {C_Revenue} |-> Str(C_100)])]),
                         recent_events_summary |-> Str(<<>>),
                         suggested_graph |-> Str(<<>>),
                         questions_to_ask |-> List(<<Str(<<"What are the risks?">>)>>)]),
     listed    |-> Dict([recent_events_summary |-> Str(<<"IPO completed.">>),
                         key_metrics_table |->
                            List(<<Dict([quarter |-> Str(S_Q1),
                                         metrics |-> Dict([m \in {C_Revenue} |-> Str(C_100)])]),
                                   Dict([Quarter |-> Str(S_Q2)]),
                                   Dict([metrics |-> Dict([m \in {C_Revenue} |-> Str(S_10)])])>>),
                         questions_to_ask |-> Str(<<"What changed?">>)]),
     questions |-> Dict([questions_to_ask |-> List(<<Str(<<"What are the risks?">>)>>),
                         error |-> Str(<<"no data">>)]),
     empty     |-> Dict(<<>>),
     array     |-> List(<<Str(<<"LLM fallback">>)>>),
     null      |-> NoneValue]

\* json.loads: the parsed document, or a JSONDecodeError
json_loads(text) ==
    IF Len(text) = 1 /\ text[1] \in DOMAIN JsonDocuments THEN JsonDocuments[text[1]]
    ELSE Exc("JSONDecodeError")

\* what call_groq answers: an error, or the lines of a completion
GroqOutcomes ==
    {Exc("All Groq model attempts failed")}
    \cup {List(<<d>>) : d \in DOMAIN JsonDocuments}
    \cup {List(<<"[fence]json", "full", "[fence]">>), List(<<"[fence]", "full">>),
          List(<<"Here is the analysis:", "full">>), List(<<>>)}

\* what pd.read_html makes of a table: an exception, or DataFrames
DfAll ==
    DataFrame(<<S_Quarter, S_total_revenue, S_GrossMargin, S_NetIncome, S_CostOfGoodsSold,
                S_DebtToEquityRatio, S_LiquidityRatio>>,
              << <<S_Q1, C_100, S_10, S_10, S_10, S_10, S_10>>,
                 <<S_Q1, S_10, S_10, S_10, S_10, S_10, S_10>> >>)
DfNoRows ==
    DataFrame(<<S_Quarter, C_Revenue, S_GrossMargin, S_NetIncome, S_CostOfGoodsSold,
                S_DebtToEquityRatio, S_LiquidityRatio>>, <<>>)
DfFirstHalf == DataFrame(<<S_Quarter, C_Revenue, S_GrossMargin, S_NetIncome>>,
                         << <<S_Q1, C_100, S_10, S_10>> >>)
DfSecondHalf == DataFrame(<<S_CostOfGoodsSold, S_DebtToEquityRatio, S_LiquidityRatio>>,
                          << <<C_100, S_10, S_10>> >>)
DfOther == DataFrame(<<S_Quarter, S_Q2>>, << <<S_Q1, C_100>> >>)

ReadHtmlOutcomes ==
    {Exc("No tables found"), List(<<DfAll>>), List(<<DfNoRows>>), List(<<DfFirstHalf>>),
     List(<<DfSecondHalf>>), List(<<DfOther, DfSecondHalf>>)}

\* the tables of item1_tables, as agent 1 writes them
T_RevenueTable == C_Revenue \o <<",">> \o S_NetIncome \o <<"\n">> \o C_100 \o <<",">> \o S_10
T_BlankLine == S_Quarter \o <<"\n", " ", "\n">> \o S_Q1

\* the values of extracted_data
ExtractedData ==
    {NoneValue, Dict(<<>>),
     Dict([item1 |-> <<>>, item2 |-> <<>>, notes |-> <<>>, item1_tables |-> List(<<>>),
           extraction_notes |-> <<>>]),
     Dict([item2 |-> <<"MD&A text">>]),
     Dict([item1 |-> <<"Revenue, Net Income">>, item1_tables |-> NoneValue]),
     Dict([item1 |-> <<>>, item2 |-> <<>>, notes |-> <<>>,
           item1_tables |-> List(<<T_RevenueTable>>), extraction_notes |-> <<>>]),
     Dict([item1 |-> <<"Revenue, Net Income">>, item2 |-> <<"MD&A text">>,
           notes |-> <<"Note 1">>, item1_tables |-> List(<<T_RevenueTable>>),
           extraction_notes |-> <<>>]),
     Dict([item1 |-> <<"Revenue, Net Income">>, item2 |-> <<"MD&A text">>,
           notes |-> <<"Note 1">>, item1_tables |-> List(<<T_RevenueTable, T_BlankLine>>),
           extraction_notes |-> << <<"Item 1 extracted">> >>])}

GROQ_SAFE_PROMPT_TOKENS == 90000

\* the tables of a filing for which pd.read_html has an answer
MaxTables == 2

\* the calls of analyze_financials: the argument, the answers of pd.read_html
\* per table and the token count of the prompt
FinancialsCases ==
    [stage : {"idle"}, extracted_data : ExtractedData,
     read_html : [1..MaxTables -> ReadHtmlOutcomes],
     prompt_token_count : {1000, GROQ_SAFE_PROMPT_TOKENS + 5000}]

InitFinancials ==
    /\ initialised = FALSE
    /\ CIK_CACHE = <<>>
    /\ ALIAS_MAP = ALIAS_MAP_LITERAL
    /\ NEW_ALIASES = EmptyDict
    /\ ALIAS_TIMESTAMP = EmptyDict
    /\ GITHUB_TOKEN = FALSE
    /\ remoteDoc = REMOTE_ALIAS_DOC
    /\ alias_map = EmptyDict
    /\ last_load_time = 0
    /\ load_attempts = 0
    /\ sec_cache = None
    /\ now = StartTime
    /\ ticks = 0
    /\ calls = 0
    /\ ret = Ret("import", <<>>, "return", None, None, <<>>, <<>>)
    /\ workers = <<>>
    /\ completed = <<>>
    /\ frame \in FinancialsCases

\* return value of analyze_financials
Returned(value) == [op |-> "analyze_financials", kind |-> "return", value |-> value]

\* the dict of the except branch of analyze_financials
financials_exception(e) ==
    [financial_summary |-> <<"Agent 2 - Financial analysis failed: ", e>>,
     key_metrics_table |-> Dict(<<>>), recent_events_summary |-> <<>>,
     suggested_graph |-> <<>>, questions_to_ask |-> <<>>, notes |-> <<>>,
     stage |-> "analyze_financials_exception", raw_tables |-> <<>>]

\* analyze_financials up to the call of the LLM: the validation of the
\* input, the Python table extraction and the validation of the sections
AnalyzeFinancials ==
    /\ frame.stage = "idle" /\ "extracted_data" \in DOMAIN frame
    /\ LET extracted_data == frame.extracted_data
       IN  IF ~truthy(extracted_data) \/ extracted_data.type # "dict"
           THEN /\ ret' = Returned([error |-> <<"No extracted data provided to Agent 2.">>,
                                    notes |-> <<>>, stage |-> "input_validation",
                                    raw_tables |-> <<>>])
                /\ frame' = [frame EXCEPT !.stage = "returned"]
           ELSE
           LET item1 == dict_get_or(extracted_data, "item1", <<>>)
               item2 == dict_get_or(extracted_data, "item2", <<>>)
               item1_tables == dict_get_or(extracted_data, "item1_tables", List(<<>>))
               extraction_notes == dict_get_or(extracted_data, "extraction_notes", <<>>)
           IN  IF item1_tables.type # "list"
               THEN \* for table_html in html_tables raises TypeError
                    /\ ret' = Returned(financials_exception("'NoneType' object is not iterable"))
                    /\ frame' = [frame EXCEPT !.stage = "returned"]
               ELSE
               LET python == extract_metrics_from_html_tables(
                                 item1_tables.items, frame.read_html, 1,
                                 [data |-> <<>>, found |-> {}])
                   all_raw_tables == << [tables |-> filing_tables_of(item1_tables.items)] >>
               IN  IF DOMAIN python.data # {} /\ all_found(python.found)
                   THEN /\ ret' = Returned(
                             [financial_summary |->
                                  <<"Extracted all key metrics using Python table parsing.">>,
                              recent_events_summary |-> <<>>,
                              key_metrics_table |-> normalize_key_metrics_table(nested(python.data)),
                              suggested_graph |-> <<>>, questions_to_ask |-> <<>>,
                              notes |-> Append(extraction_notes,
                                  <<"All required metrics extracted via Python table parsing.">>),
                              source |-> "python",
                              raw_tables |-> all_raw_tables])
                        /\ frame' = [frame EXCEPT !.stage = "returned"]
                   ELSE IF item1 = <<>> /\ item2 = <<>>
                   THEN /\ ret' = Returned(
                             [error |-> <<"No valid extracted sections could be processed.">>,
                              notes |-> extraction_notes, stage |-> "extract_validation",
                              raw_tables |-> all_raw_tables])
                        /\ frame' = [frame EXCEPT !.stage = "returned"]
                   ELSE /\ frame' = [stage |-> "llm", extracted_data |-> extracted_data,
                                     read_html |-> frame.read_html,
                                     prompt_token_count |-> frame.prompt_token_count,
                                     extraction_notes |->
                                        IF frame.prompt_token_count > GROQ_SAFE_PROMPT_TOKENS
                                        THEN Append(extraction_notes,
                                               <<"Prompt was truncated from ">>
                                               \o str_int(frame.prompt_token_count)
                                               \o <<" tokens to ">>
                                               \o str_int(GROQ_SAFE_PROMPT_TOKENS)
                                               \o <<" tokens.">>)
                                        ELSE extraction_notes,
                                     all_raw_tables |-> all_raw_tables]
                        /\ UNCHANGED ret
    /\ UNCHANGED <<legacyVars, remoteDoc, apiVars, now, ticks, calls, workers, completed>>

\* _llm_fallback_analysis: the dict with the answer, or the error dict
llm_fallback_analysis(result, extraction_notes) ==
    IF result.type = "exception"
    THEN [error |-> <<"Agent 2 - Financial analysis failed: ", result.msg>>,
          notes |-> Append(extraction_notes,
                           <<"Agent 2 - Financial analysis failed: ", result.msg>>),
          stage |-> "llm_fallback_analysis"]
    ELSE [llm_output |-> result]

\* the conversion of the values of a dict key_metrics_table to lists of
\* strings, made in place on the parsed document
listified(table) ==
    IF table.type = "dict"
    THEN Dict([q \in DOMAIN table.items |-> List(<<table.items[q]>>)])
    ELSE table

\* _normalize_llm_output
normalize_llm_output(llm_result, extraction_notes) ==
    LET clean_result == extract_json_from_llm_output(llm_result.llm_output.items)
        parsed == json_loads(clean_result)
        failed(e) == [error |-> <<"Failed to normalize LLM output: ", e>>,
                      notes |-> extraction_notes, stage |-> "normalize_llm_output_exception"]
    IN  IF parsed.type = "exception"
        THEN \* re.search with the pattern (?R) raises re.error in the handler
             failed("unknown extension ?R")
        ELSE IF parsed.type \notin {"dict", "none"} /\ truthy(parsed)
        THEN failed("object has no attribute 'get'")
        ELSE IF ~truthy(parsed)
                \/ ~\E k \in {"financial_summary", "key_metrics_table", "recent_events_summary"} :
                      k \in DOMAIN parsed.items /\ truthy(parsed.items[k])
        THEN [financial_summary |->
                  <<"No financial data found in filings. Please check the filings manually.">>,
              key_metrics_table |-> Dict(<<>>), suggested_graph |-> <<>>,
              recent_events_summary |-> <<>>, questions_to_ask |-> List(<<>>),
              notes |-> extraction_notes, stage |-> "normalize_llm_output"]
        ELSE LET questions_to_ask == dict_get_or(parsed, "questions_to_ask", List(<<>>))
             IN  [company_name |-> <<>>,
                  financial_summary |-> dict_get_or(parsed, "financial_summary", Str(<<>>)),
                  recent_events_summary |-> dict_get_or(parsed, "recent_events_summary", Str(<<>>)),
                  key_metrics_table |->
                      normalize_key_metrics_table(
                          listified(dict_get_or(parsed, "key_metrics_table", Dict(<<>>)))),
                  suggested_graph |-> <<>>,
                  questions_to_ask |->
                      IF questions_to_ask.type = "list" THEN questions_to_ask
                      ELSE IF truthy(questions_to_ask) THEN List(<<questions_to_ask>>)
                      ELSE List(<<>>),
                  notes |-> extraction_notes]

\* {**d, "raw_tables": all_raw_tables}
with_raw_tables(d, all_raw_tables) ==
    [k \in (DOMAIN d) \cup {"raw_tables"} |-> IF k = "raw_tables" THEN all_raw_tables ELSE d[k]]

\* analyze_financials from the call of the LLM to its return
AnalyzeFinancialsLlm ==
    /\ frame.stage = "llm" /\ "all_raw_tables" \in DOMAIN frame
    /\ \E result \in GroqOutcomes :
         LET llm_result == llm_fallback_analysis(result, frame.extraction_notes)
         IN  ret' = Returned(
                 IF "error" \in DOMAIN llm_result
                 THEN with_raw_tables(llm_result, frame.all_raw_tables)
                 ELSE with_raw_tables(normalize_llm_output(llm_result, frame.extraction_notes),
                                      frame.all_raw_tables))
    /\ frame' = [frame EXCEPT !.stage = "returned"]
    /\ UNCHANGED <<legacyVars, remoteDoc, apiVars, now, ticks, calls, workers, completed>>

NextFinancials == AnalyzeFinancials \/ AnalyzeFinancialsLlm

SpecFinancials == InitFinancials /\ [][NextFinancials]_vars

(***************************************************************************)
(* app/api/groq_client.py: call_groq                                       *)
(***************************************************************************)
GROQ_MODEL_PRIORITY ==
    << "compound-beta", "llama-3.3-70b-versatile",
       "meta-llama/llama-4-maverick-17b-128e-instruct" >>

\* contents a model answers with, as strings of characters
Contents == { <<" ", "o", "k", "\n">>, <<"n", "o">> }

\* the chunks of a streamed answer: a piece of content, an empty delta, or a
\* failure of the connection while the stream is read
ChunkStreams == { <<"o", "", "k">>, <<"o", "<error>">> }

\* what client.chat.completions.create does for one model: it raises, or it
\* returns a message whose content is a text or None, or with stream=True a
\* stream of chunks
CreateOutcomes(stream) ==
    IF stream
    THEN {[kind |-> "raise"]} \cup {[kind |-> "chunks", chunks |-> c] : c \in ChunkStreams}
    ELSE {[kind |-> "raise"]}
           \cup {[kind |-> "message", content |-> c] : c \in Contents \cup {None}}

\* the exception caught for a model
model_error(model, what) == [type |-> "exception", model |-> model, what |-> what]

\* last_error = None
NoError == [type |-> "none"]

\* the value of stream_generator(): a generator over the response
Generator(chunks) == [type |-> "generator", chunks |-> chunks]

\* one pass of the body of the loop for a model: the try block returns, or the
\* except block keeps the exception
try_model(model, stream, outcome) ==
    IF outcome.kind = "raise"
    THEN [kind |-> "except", value |-> model_error(model, "create failed")]
    ELSE IF stream
    THEN [kind |-> "return", value |-> Generator(outcome.chunks)]
    ELSE IF outcome.content = None
    THEN [kind |-> "except",
          value |-> model_error(model, "'NoneType' object has no attribute 'strip'")]
    ELSE [kind |-> "return", value |-> Str(strip(outcome.content))]

\* the loop gives up after the first model
loop_done_early(pos) == pos > 1

\* for model in GROQ_MODEL_PRIORITY: the loop is over after the last model
loop_done(pos) == pos > Len(GROQ_MODEL_PRIORITY)

\* raise RuntimeError(f"All Groq model fallbacks failed. Last error: {last_error}")
RuntimeError(last_error) == [type |-> "RuntimeError", last_error |-> last_error]

\* the chunks stream_generator yields before the stream ends or fails
RECURSIVE yielded(_)
yielded(chunks) ==
    IF chunks = <<>> \/ Head(chunks) = "<error>" THEN <<>>
    ELSE IF Head(chunks) = "" THEN yielded(Tail(chunks))
    ELSE <<Head(chunks)>> \o yielded(Tail(chunks))

InitGroq ==
    /\ initialised = FALSE
    /\ CIK_CACHE = <<>>
    /\ ALIAS_MAP = ALIAS_MAP_LITERAL
    /\ NEW_ALIASES = EmptyDict
    /\ ALIAS_TIMESTAMP = EmptyDict
    /\ GITHUB_TOKEN = FALSE
    /\ remoteDoc = REMOTE_ALIAS_DOC
    /\ alias_map = EmptyDict
    /\ last_load_time = 0
    /\ load_attempts = 0
    /\ sec_cache = None
    /\ now = StartTime
    /\ ticks = 0
    /\ calls = 0
    /\ ret = Ret("import", <<>>, "return", None, None, <<>>, <<>>)
    /\ workers = <<>>
    /\ completed = <<>>
    /\ frame = [stage |-> "idle"]

\* call_groq(prompt, stream) is entered: last_error = None, the loop starts at
\* the first model; completed logs the calls made to the models
CallGroqBegin ==
    /\ frame.stage \in {"idle", "done"}
    /\ calls < MaxCalls
    /\ \E stream \in BOOLEAN :
         frame' = [stage |-> "loop", stream |-> stream, pos |-> 1, last_error |-> NoError]
    /\ completed' = <<>>
    /\ UNCHANGED <<ret, calls, workers>>
    /\ UNCHANGED <<remoteDoc, now, ticks>>
    /\ UNCHANGED legacyVars
    /\ UNCHANGED apiVars

\* one pass of the loop: the model at pos is called
TryModel ==
    /\ frame.stage = "loop"
    /\ ~loop_done(frame.pos)
    /\ \E outcome \in CreateOutcomes(frame.stream) :
         LET model == GROQ_MODEL_PRIORITY[frame.pos]
             r     == try_model(model, frame.stream, outcome)
         IN  /\ completed' = Append(completed, [model |-> model, outcome |-> outcome])
             /\ IF r.kind = "return"
                THEN /\ frame' = [frame EXCEPT !.stage = "done"]
                     /\ ret' = [op |-> "call_groq", kind |-> "return", value |-> r.value]
                     /\ calls' = calls + 1
                ELSE /\ frame' = [frame EXCEPT !.pos = @ + 1, !.last_error = r.value]
                     /\ UNCHANGED <<ret, calls>>
    /\ UNCHANGED <<workers, remoteDoc, now, ticks>>
    /\ UNCHANGED legacyVars
    /\ UNCHANGED apiVars

\* the loop ended without a return
AllModelsFailed ==
    /\ frame.stage = "loop"
    /\ loop_done(frame.pos)
    /\ frame' = [frame EXCEPT !.stage = "done"]
    /\ ret' = [op |-> "call_groq", kind |-> "raise", value |-> RuntimeError(frame.last_error)]
    /\ calls' = calls + 1
    /\ UNCHANGED <<completed, workers, remoteDoc, now, ticks>>
    /\ UNCHANGED legacyVars
    /\ UNCHANGED apiVars

\* the caller reads the generator that call_groq returned
ReadStream ==
    /\ frame.stage = "done"
    /\ ret.op = "call_groq" /\ ret.kind = "return"
    /\ ret.value.type = "generator"
    /\ LET chunks == ret.value.chunks
       IN  ret' = [op |-> "stream_generator",
                   kind |-> IF \E i \in 1..Len(chunks) : chunks[i] = "<error>"
                            THEN "raise" ELSE "return",
                   value |-> List(yielded(chunks))]
    /\ UNCHANGED <<frame, completed, calls, workers, remoteDoc, now, ticks>>
    /\ UNCHANGED legacyVars
    /\ UNCHANGED apiVars

NextGroq ==
    \/ CallGroqBegin
    \/ TryModel
    \/ AllModelsFailed
    \/ ReadStream

SpecGroq == InitGroq /\ [][NextGroq]_vars

(***************************************************************************)
(* app/api/agents/agent1_fetch_sec.py: fetch_10q, fetch_10q_html and their *)
(* caches. A TTLCache is the sequence of its entries, least recently used  *)
(* first; frame holds the two module-level caches.                         *)
(***************************************************************************)
\* int(os.getenv("AGENT1_CACHE_SIZE", 20)), with AGENT1_CACHE_SIZE=2 in the
\* environment of the process
AGENT1_CACHE_SIZE == 2

\* int(os.getenv("AGENT1_CACHE_TTL", 3600))
AGENT1_CACHE_TTL == 3600

\* an entry is served whatever its age
ttl_fresh_always(entry, t) == TRUE

\* TTLCache: an entry is alive while the timer is before its expiry
ttl_fresh(entry, t) == t < entry.expires

\* key in cache
ttl_contains(cache, key, t) ==
    \E i \in 1..Len(cache) : cache[i].key = key /\ ttl_fresh(cache[i], t)

\* position of a key among the entries, 0 when absent
ttl_index(cache, key) ==
    IF \E i \in 1..Len(cache) : cache[i].key = key
    THEN CHOOSE i \in 1..Len(cache) : cache[i].key = key
    ELSE 0

\* the entries without the one at position i
ttl_without(cache, i) ==
    IF i = 0 THEN cache ELSE SubSeq(cache, 1, i - 1) \o SubSeq(cache, i + 1, Len(cache))

\* cache[key] for a key that is in the cache: the value, and the entry becomes
\* the most recently used
ttl_getitem(cache, key) ==
    LET i == ttl_index(cache, key)
    IN  [value |-> cache[i].value, cache |-> Append(ttl_without(cache, i), cache[i])]

\* TTLCache.expire(): the entries that have expired are dropped
RECURSIVE ttl_expire(_, _)
ttl_expire(cache, t) ==
    IF cache = <<>> THEN <<>>
    ELSE IF ttl_fresh(Head(cache), t) THEN <<Head(cache)>> \o ttl_expire(Tail(cache), t)
    ELSE ttl_expire(Tail(cache), t)

\* Cache.__setitem__ for a new key: popitem() drops the least recently used
\* entries until there is room
RECURSIVE ttl_make_room(_)
ttl_make_room(cache) ==
    IF Len(cache) + 1 > AGENT1_CACHE_SIZE THEN ttl_make_room(Tail(cache)) ELSE cache

\* cache[key] = value: expired entries go, room is made for a new key, and the
\* entry expires ttl seconds from now
ttl_setitem(cache, key, value, t) ==
    LET live  == ttl_expire(cache, t)
        i     == ttl_index(live, key)
        entry == [key |-> key, value |-> value, expires |-> t + AGENT1_CACHE_TTL]
    IN  IF i # 0 THEN Append(ttl_without(live, i), entry)
        ELSE Append(ttl_make_room(live), entry)

\* f"{company_name.lower().strip()}_{count}"
cache_key(company_name, count) == strip(lower(company_name)) \o <<"_">> \o str_int(count)

\* an integer value
IntValue(n) == [type |-> "int", n |-> n]

\* the filing pages of the model: the text of the page, the words that
\* text.split() finds in it, and whether extract_10q_sections raises on it
FilingUrls == {"U1", "U2", "U3"}
PageOf(url) ==
    [text |-> <<"page", url>>,
     words |-> IF url = "U1" THEN 3 ELSE 7,
     extractable |-> url # "U2"]

\* int(words / 0.75)
estimate_token_count(words) == (words * 4) \div 3

\* fetch_10q_html(url): a page in the cache is returned without a request, a
\* fetched page is stored, a failed fetch raises and stores nothing
fetch_10q_html(cache, url, t, answers) ==
    IF ttl_contains(cache, url, t)
    THEN LET got == ttl_getitem(cache, url)
         IN  [kind |-> "return", html |-> got.value, cache |-> got.cache,
              requests |-> <<>>]
    ELSE IF answers[url] = "200"
    THEN [kind |-> "return", html |-> PageOf(url),
          cache |-> ttl_setitem(cache, url, PageOf(url), t),
          requests |-> <<[url |-> url, answer |-> "200", timeout |-> 10]>>]
    ELSE [kind |-> "raise", html |-> NoneValue, cache |-> cache,
          requests |-> <<[url |-> url, answer |-> answers[url], timeout |-> 10]>>]

\* one pass of the loop over the filings: the entry appended to filings_list
filing_entry(filing, title, fetched) ==
    LET processed == fetched.kind = "return" /\ fetched.html.extractable
    IN  [filing_date |-> filing.filing_date,
         html_url |-> filing.html_url,
         title |-> title,
         marker |-> filing.marker,
         estimated_tokens |-> IF processed
                              THEN IntValue(estimate_token_count(fetched.html.words))
                              ELSE NoneValue,
         extracted_sections |-> IF processed
                                THEN [type |-> "sections", of |-> fetched.html.text]
                                ELSE NoneValue]

\* a filing without a usable html_url is not fetched
no_fetch(cache) == [kind |-> "skip", html |-> NoneValue, cache |-> cache, requests |-> <<>>]

\* the loop of fetch_10q over filings_data["filings"] from position i on
RECURSIVE fetch_filings(_, _, _, _, _, _)
fetch_filings(filings, i, title, cache, t, answers) ==
    IF i > Len(filings)
    THEN [filings_list |-> <<>>, cache |-> cache, requests |-> <<>>]
    ELSE LET url     == filings[i].html_url
             fetched == IF url \in FilingUrls
                        THEN fetch_10q_html(cache, url, t, answers)
                        ELSE no_fetch(cache)
             rest    == fetch_filings(filings, i + 1, title, fetched.cache, t, answers)
         IN  [filings_list |-> <<filing_entry(filings[i], title, fetched)>> \o rest.filings_list,
              cache |-> rest.cache,
              requests |-> fetched.requests \o rest.requests]

\* what get_quarterly_filings hands to fetch_10q: it raises, it answers with
\* an error and nothing else, or it answers with the filings of the company,
\* count of them when the company has that many
UpstreamFiling(url, marker) == [filing_date |-> "2024-05-01", html_url |-> url, marker |-> marker]
filings_of(company_name, count) ==
    IF strip(lower(company_name)) = S_meta
    THEN [company_name |-> S_MetaPlatforms, cik |-> zfill(D_1326801, 10),
          filings |-> SubSeq(<<UpstreamFiling("U1", "Most Recent"), UpstreamFiling("U2", "")>>,
                             1, count)]
    ELSE [company_name |-> S_RH, cik |-> zfill(D_1528849, 10),
          filings |-> <<UpstreamFiling("U3", "Most Recent"),
                        UpstreamFiling("Unavailable", "")>>]
UpstreamAnswers(company_name, count) ==
    { [kind |-> "raise"],
      [kind |-> "return", data |-> [error |-> "Internal error"]],
      [kind |-> "return", data |-> filings_of(company_name, count)] }

\* the request fetch_10q makes upstream
UpstreamCall(company_name, count, upstream) ==
    [url |-> "get_quarterly_filings", company_name |-> company_name, count |-> count,
     answer |-> upstream.kind]

\* fetch_10q(company_name, count)
fetch_10q(meta, html, company_name, count, t, upstream, answers) ==
    LET key == cache_key(company_name, count)
    IN  IF ttl_contains(meta, key, t)
        THEN LET got == ttl_getitem(meta, key)
             IN  [value |-> got.value, meta_cache |-> got.cache, html_cache |-> html,
                  requests |-> <<>>]
        ELSE IF upstream.kind = "raise"
        THEN [value |-> [error |-> "Agent 1 - SEC data fetch failed"],
              meta_cache |-> meta, html_cache |-> html,
              requests |-> <<UpstreamCall(company_name, count, upstream)>>]
        ELSE LET data   == upstream.data
                 title  == Get(data, "company_name", company_name)
                 loop   == fetch_filings(Get(data, "filings", <<>>), 1, title,
                                         html, t, answers)
                 result == [company_name |-> title,
                            cik |-> Get(data, "cik", None),
                            filings |-> loop.filings_list]
             IN  [value |-> result,
                  meta_cache |-> ttl_setitem(meta, key, result, t),
                  html_cache |-> loop.cache,
                  requests |-> <<UpstreamCall(company_name, count, upstream)>>
                                 \o loop.requests]

\* the calls made to fetch_10q
Fetch10qInputs == { <<S_InputMeta, 1>>, <<S_meta, 1>>, <<S_meta, 2>>, <<S_RH, 2>> }

\* the pages fetch_10q may ask for: those of the filings it got
urls_of(upstream) ==
    IF upstream.kind = "return" /\ "filings" \in DOMAIN upstream.data
    THEN {upstream.data.filings[i].html_url : i \in 1..Len(upstream.data.filings)}
           \cap FilingUrls
    ELSE {}

\* what the filing server answers for each page it may be asked for
PageAnswers(urls) == [urls -> {"200", "exception"}]

\* calls made to fetch_10q and fetch_10q_html in one run
MaxFetches == 3

InitAgent1 ==
    /\ initialised = FALSE
    /\ CIK_CACHE = <<>>
    /\ ALIAS_MAP = ALIAS_MAP_LITERAL
    /\ NEW_ALIASES = EmptyDict
    /\ ALIAS_TIMESTAMP = EmptyDict
    /\ GITHUB_TOKEN = FALSE
    /\ remoteDoc = REMOTE_ALIAS_DOC
    /\ alias_map = EmptyDict
    /\ last_load_time = 0
    /\ load_attempts = 0
    /\ sec_cache = None
    /\ now = StartTime
    /\ ticks = 0
    /\ calls = 0
    /\ ret = Ret("import", <<>>, "return", None, None, <<>>, <<>>)
    /\ workers = <<>>
    /\ completed = <<>>
    /\ frame = [meta_cache |-> <<>>, html_cache |-> <<>>]

Fetch10q ==
    /\ calls < MaxFetches
    /\ \E input \in Fetch10qInputs :
       \E upstream \in UpstreamAnswers(input[1], input[2]) :
       \E answers \in PageAnswers(urls_of(upstream)) :
         LET res == fetch_10q(frame.meta_cache, frame.html_cache, input[1], input[2],
                              now, upstream, answers)
         IN  /\ frame' = [meta_cache |-> res.meta_cache, html_cache |-> res.html_cache]
             /\ ret' = [op |-> "fetch_10q", input |-> input, kind |-> "return",
                        value |-> res.value, requests |-> res.requests]
    /\ calls' = calls + 1
    /\ UNCHANGED <<workers, completed, remoteDoc, now, ticks>>
    /\ UNCHANGED legacyVars
    /\ UNCHANGED apiVars

Fetch10qHtml ==
    /\ calls < MaxFetches
    /\ \E url \in FilingUrls :
       \E answers \in PageAnswers({url}) :
         LET res == fetch_10q_html(frame.html_cache, url, now, answers)
         IN  /\ frame' = [frame EXCEPT !.html_cache = res.cache]
             /\ ret' = [op |-> "fetch_10q_html", input |-> url, kind |-> res.kind,
                        value |-> res.html, requests |-> res.requests]
    /\ calls' = calls + 1
    /\ UNCHANGED <<workers, completed, remoteDoc, now, ticks>>
    /\ UNCHANGED legacyVars
    /\ UNCHANGED apiVars

\* time passes between two calls: a second less than the cache TTL, or the TTL
TickAgent1 ==
    /\ ticks < MaxTicks
    /\ \E d \in {AGENT1_CACHE_TTL - 1, AGENT1_CACHE_TTL} : now' = now + d
    /\ ticks' = ticks + 1
    /\ UNCHANGED <<frame, ret, calls, workers, completed, remoteDoc>>
    /\ UNCHANGED legacyVars
    /\ UNCHANGED apiVars

NextAgent1 ==
    \/ Fetch10q
    \/ Fetch10qHtml
    \/ TickAgent1

SpecAgent1 == InitAgent1 /\ [][NextAgent1]_vars

(***************************************************************************)
(* app/api/question_bank.py: POST /question_bank with USE_CUSTOMGPT_KB     *)
(* unset, so that the question bank is the local file. The route is a      *)
(* plain def: the server runs each request on a thread of its pool.        *)
(* workers are the requests in progress, frame holds the file, completed   *)
(* the lines log_action wrote.                                             *)
(***************************************************************************)
AGENT_PERMISSIONS ==
    ("agent3" :> [read |-> TRUE, write |-> FALSE])
        @@ ("agent4" :> [read |-> TRUE, write |-> TRUE])

\* the x-agent-id headers of the requests
AgentIds == {"agent3", "agent4", "agent7"}

\* the payload.update of the requests: question keys with their new entries
BankUpdates == { ("q1" :> 11), ("q2" :> 22), ("q1" :> 12) @@ ("q3" :> 33) }

\* the question bank file before the first request, with and without a version
InitialBanks == { ("version" :> 4) @@ ("q0" :> 10), ("q0" :> 10) }

\* get_agent_permissions and the write check of update_question_bank: the
\* status of the rejection, 200 when the request may go on
permission_status(x_agent_id) ==
    IF x_agent_id \notin DOMAIN AGENT_PERMISSIONS THEN 403
    ELSE IF ~AGENT_PERMISSIONS[x_agent_id].write THEN 403
    ELSE 200

\* detail of the HTTPException of a rejected request
permission_detail(x_agent_id) ==
    IF x_agent_id \notin DOMAIN AGENT_PERMISSIONS THEN "Invalid agent ID"
    ELSE "Write access denied"

\* for k, v in payload.update.items(): data[k] = v, then
\* data["version"] = data.get("version", 0) + 1
updated(data, update) ==
    LET merged == Merge(data, update)
    IN  Put(merged, "version", Get(merged, "version", 0) + 1)

\* a thread of the pool that serves no request
IdleRequest == [pc |-> "idle"]

InitBank ==
    /\ initialised = FALSE
    /\ CIK_CACHE = <<>>
    /\ ALIAS_MAP = ALIAS_MAP_LITERAL
    /\ NEW_ALIASES = EmptyDict
    /\ ALIAS_TIMESTAMP = EmptyDict
    /\ GITHUB_TOKEN = FALSE
    /\ remoteDoc = REMOTE_ALIAS_DOC
    /\ alias_map = EmptyDict
    /\ last_load_time = 0
    /\ load_attempts = 0
    /\ sec_cache = None
    /\ now = StartTime
    /\ ticks = 0
    /\ calls = 0
    /\ ret = Ret("import", <<>>, "return", None, None, <<>>, <<>>)
    /\ workers = [i \in 1..MaxThreads |-> IdleRequest]
    /\ completed = <<>>
    /\ \E bank \in InitialBanks : frame = [question_bank |-> bank, initial |-> bank]

\* a request arrives on a free thread: it is rejected with 403, or
\* load_question_bank reads the file and the update is applied to the copy
\* the thread holds
UpdateLoad(i) ==
    /\ workers[i].pc \in {"idle", "done"}
    /\ calls < MaxCalls
    /\ \E x_agent_id \in AgentIds :
       \E update \in BankUpdates :
         IF permission_status(x_agent_id) # 200
         THEN /\ workers' = [workers EXCEPT ![i] = [pc |-> "done"]]
              /\ ret' = [op |-> "update_question_bank", kind |-> "raise",
                         agent |-> x_agent_id, status |-> permission_status(x_agent_id),
                         detail |-> permission_detail(x_agent_id)]
         ELSE /\ workers' = [workers EXCEPT ![i] =
                               [pc |-> "loaded", agent |-> x_agent_id, update |-> update,
                                data |-> updated(frame.question_bank, update)]]
              /\ UNCHANGED ret
    /\ calls' = calls + 1
    /\ UNCHANGED <<frame, completed, remoteDoc, now, ticks>>
    /\ UNCHANGED legacyVars
    /\ UNCHANGED apiVars

\* save_question_bank writes the copy of the thread to the file, log_action
\* writes its line and the request is answered
UpdateSave(i) ==
    /\ workers[i].pc = "loaded"
    /\ frame' = [frame EXCEPT !.question_bank = workers[i].data]
    /\ completed' = Append(completed, [agent |-> workers[i].agent, action |-> "update",
                                       update |-> workers[i].update,
                                       new_version |-> workers[i].data["version"]])
    /\ ret' = [op |-> "update_question_bank", kind |-> "return",
               agent |-> workers[i].agent, status |-> 200,
               version |-> workers[i].data["version"]]
    /\ workers' = [workers EXCEPT ![i] = [pc |-> "done"]]
    /\ UNCHANGED <<calls, remoteDoc, now, ticks>>
    /\ UNCHANGED legacyVars
    /\ UNCHANGED apiVars

NextBank ==
    \/ \E i \in 1..MaxThreads : UpdateLoad(i)
    \/ \E i \in 1..MaxThreads : UpdateSave(i)

SpecBank == InitBank /\ [][NextBank]_vars

(***************************************************************************)
(* The fuzzy tier of the resolution design (tier 4): a similarity ratio in *)
(* [0,1] between the candidate and every official name, accepted at 0.85   *)
(***************************************************************************)
Max(a, b) == IF a >= b THEN a ELSE b

\* one row of the longest-common-subsequence table; row[j + 1] is column j
RECURSIVE lcs_next_row(_, _, _, _)
lcs_next_row(c, b, prev, acc) ==
    IF Len(acc) = Len(b) + 1 THEN acc
    ELSE LET j == Len(acc)
         IN  lcs_next_row(c, b, prev,
                 Append(acc, IF c = b[j] THEN prev[j] + 1 ELSE Max(prev[j + 1], acc[j])))

RECURSIVE lcs_rows(_, _, _)
lcs_rows(a, b, i) ==
    IF i = 0 THEN [j \in 1..(Len(b) + 1) |-> 0]
    ELSE lcs_next_row(a[i], b, lcs_rows(a, b, i - 1), <<0>>)

\* number of matching characters of a and b
matching(a, b) == lcs_rows(a, b, Len(a))[Len(b) + 1]

\* similarity(a, b) >= 0.85, where similarity = 2 * matching / (len(a) + len(b))
similar(a, b) == Len(a) + Len(b) > 0 /\ 200 * matching(a, b) >= 85 * (Len(a) + Len(b))

\* similarity(a, x) > similarity(a, y)
more_similar(a, x, y) ==
    matching(a, x) * (Len(a) + Len(y)) > matching(a, y) * (Len(a) + Len(x))

\* the entry tier 4 accepts for a candidate: the best-scoring official name,
\* the first one on ties; 0 when no score reaches 0.85
fuzzy_match(cache, candidate) ==
    LET ok == {i \in 1..Len(cache) : similar(candidate, cache[i].title)}
    IN  IF ok = {} THEN 0
        ELSE CHOOSE i \in ok :
               \A j \in ok : /\ ~more_similar(candidate, cache[j].title, cache[i].title)
                             /\ (j < i => more_similar(candidate, cache[i].title,
                                                       cache[j].title))

(***************************************************************************)
(* Properties                                                              *)
(***************************************************************************)
\* a resolve_cik call has just returned
ResolvedCik == initialised /\ ret.op = "resolve_cik"

\* some request of the last call went to the company-search page
Scraped == \E i \in 1..Len(ret.requests) : ret.requests[i].url = "browse-edgar"

\* the step is a call of one of the given operations
IsCall(ops) == calls' = calls + 1 /\ ret'.op \in ops

\* C1: an input whose lowercased, trimmed form is a ticker of the loaded
\* directory resolves to that entry's CIK and official name, whatever the alias
\* map holds, with no request other than the directory load.
C1_TickerInputResolvesToItsEntry ==
    (ret.op = "resolve_company_name" /\ sec_cache # None) =>
        \A i \in 1..Len(sec_cache) :
            normalize_key(ret.input) = normalize_key(sec_cache[i].ticker) =>
                /\ ret.kind = "return"
                /\ ret.cik = zfill(sec_cache[i].cik_str, 10)
                /\ ret.name = sec_cache[i].title
                /\ \A r \in 1..Len(ret.requests) :
                       ret.requests[r].url = "SEC_TICKER_CIK_URL"

\* C2: when the normalized input is an alias key, the official-name comparison
\* is made with the aliased value: an input whose alias value equals an
\* official name resolves to that entry without the fallback scrape.
C2_AliasedCandidateMatchesOfficialName ==
    ResolvedCik =>
        LET name_key == normalize_key(ret.input)
            titles   == {i \in 1..Len(CIK_CACHE) :
                           /\ name_key \in DOMAIN ALIAS_MAP
                           /\ lower(ALIAS_MAP[name_key]) = lower(CIK_CACHE[i].title)}
        IN  (IndexOfKey(CIK_CACHE, name_key) = 0 /\ titles # {}) =>
                LET i == CHOOSE x \in titles : \A y \in titles : x <= y
                IN  /\ ret.kind = "return"
                    /\ ret.name = CIK_CACHE[i].title
                    /\ ret.cik = CIK_CACHE[i].cik
                    /\ ~Scraped

\* C3: resolve never returns normally with an absent CIK; an input no tier
\* matches ends in ResolutionError.
C3_NoNullCikReturned ==
    ResolvedCik => (ret.kind = "return" => ret.cik # None)

\* C4: a previously unseen input that is neither a ticker nor an exact official
\* name, and whose similarity to some official name is at least 0.85, resolves
\* to the best-scoring official name, and the pair input -> matched name enters
\* the pending buffer without a write to the remote store.
C4_FuzzyMatchResolvesAndProposes ==
    [][ IsCall({"resolve_cik"}) =>
          LET input    == ret'.input
              name_key == normalize_key(input)
              seen     == {normalize_key(k) : k \in (DOMAIN ALIAS_MAP) \cup (DOMAIN NEW_ALIASES)}
              best     == fuzzy_match(CIK_CACHE, input)
          IN  ( /\ name_key \notin seen
                /\ IndexOfKey(CIK_CACHE, name_key) = 0
                /\ \A i \in 1..Len(CIK_CACHE) : lower(CIK_CACHE[i].title) # name_key
                /\ best # 0 ) =>
                  /\ ret'.kind = "return"
                  /\ ret'.name = CIK_CACHE[best].title
                  /\ ret'.cik = CIK_CACHE[best].cik
                  /\ \E k \in DOMAIN NEW_ALIASES' :
                        /\ normalize_key(k) = name_key
                        /\ NEW_ALIASES'[k] = CIK_CACHE[best].title
                  /\ remoteDoc' = remoteDoc ]_vars

C6_RecordingIdempotentWithinTTL ==
    [][ IsCall({"resolve_cik", "record_alias"}) =>
          \A k \in (DOMAIN NEW_ALIASES) \cap (DOMAIN ALIAS_TIMESTAMP) :
              now - ALIAS_TIMESTAMP[k] <= ALIAS_TTL =>
                  /\ NEW_ALIASES'[k] = NEW_ALIASES[k]
                  /\ ALIAS_TIMESTAMP'[k] = ALIAS_TIMESTAMP[k] ]_vars

\* C7: no self-aliasing: no entry of the alias map or of the pending buffer has
\* a key equal to its resolved name, both lowercased and trimmed.
C7_NoSelfAliasing ==
    initialised =>
        /\ \A k \in DOMAIN ALIAS_MAP : normalize_key(k) # normalize_key(ALIAS_MAP[k])
        /\ \A k \in DOMAIN NEW_ALIASES : normalize_key(k) # normalize_key(NEW_ALIASES[k])

\* C8: protected keys are never learned or overridden: the pending buffer holds
\* no key whose lowercased, trimmed form is protected, and every protected key
\* of the alias map keeps the value it had at start (or stays absent).
C8_ProtectedKeysNeverLearned ==
    /\ \A k \in DOMAIN NEW_ALIASES : normalize_key(k) \notin PROTECTED_ALIASES
    /\ \A p \in PROTECTED_ALIASES :
          IF p \in DOMAIN ALIAS_MAP_LITERAL
          THEN p \in DOMAIN ALIAS_MAP /\ ALIAS_MAP[p] = ALIAS_MAP_LITERAL[p]
          ELSE p \notin DOMAIN ALIAS_MAP

\* the last call was a load that could read the local file and the remote document
LoadedBoth ==
    \/ ret.op = "load_aliases" /\ ret.env = <<"readable", "200">>
    \/ ret.op = "init_cache" /\ ret.env[3] = "readable" /\ ret.env[4] = "200"

\* C9: after a load that read both sources, every non-protected key of either
\* source is in the alias map under its lowercased, trimmed form, and a key the
\* two sources map differently maps to the remote value.
C9_LoadMergesBothSources ==
    LoadedBoth =>
        /\ \A k \in (DOMAIN remoteDoc) \cup (DOMAIN LOCAL_ALIAS_DOC) :
              normalize_key(k) \notin PROTECTED_ALIASES =>
                  normalize_key(k) \in DOMAIN ALIAS_MAP
        /\ \A k \in (DOMAIN remoteDoc) \cap (DOMAIN LOCAL_ALIAS_DOC) :
              ( /\ normalize_key(k) \notin PROTECTED_ALIASES
                /\ remoteDoc[k] # LOCAL_ALIAS_DOC[k] ) =>
                  /\ normalize_key(k) \in DOMAIN ALIAS_MAP
                  /\ ALIAS_MAP[normalize_key(k)] = remoteDoc[k]

\* the last call ran a load in which the remote fetch failed and the local file
\* was missing or unreadable
LoadFoundNothing ==
    /\ ret.op \in {"load_alias_map", "resolve_company_name"}
    /\ ret.env[1] \in {"exception", "404"}
    /\ ret.env[2] \in {"missing", "unreadable"}

\* C10: load never raises: when the remote fetch fails and the local file is
\* missing or unreadable it returns an empty mapping, and a resolve that loads
\* this way still resolves a ticker or an official name of the directory.
C10_LoadNeverRaises ==
    /\ (LoadFoundNothing /\ ret.op = "load_alias_map") =>
           (ret.kind = "return" /\ alias_map = EmptyDict)
    /\ (LoadFoundNothing /\ ret.op = "resolve_company_name" /\ sec_cache # None
            /\ sec_match(sec_cache, ret.input) # 0) =>
           ret.kind = "return"

\* C11: persist is non-fatal and bounded: a push_new_aliases_to_github call
\* returns normally, sends each of its requests at most once, leaves the
\* directory cache and the alias map as they were, so that every resolve gives
\* afterwards what it gave before, and issues no request when the pending
\* buffer is empty or no write credential is configured.
C11_PersistNonFatalAndBounded ==
    [][ IsCall({"push_new_aliases_to_github"}) =>
          /\ ret'.kind = "return"
          /\ \A i, j \in 1..Len(ret'.requests) :
                ret'.requests[i] = ret'.requests[j] => i = j
          /\ ALIAS_MAP' = ALIAS_MAP
          /\ \A x \in Inputs : \A s \in ScrapeOutcomes :
                resolve_cik(x, CIK_CACHE', ALIAS_MAP', s) = resolve_cik(x, CIK_CACHE, ALIAS_MAP, s)
          /\ (NEW_ALIASES = EmptyDict \/ ~GITHUB_TOKEN) => ret'.requests = <<>> ]_vars

\* C11 witness: persist has returned after its version-token request failed,
\* with a pending buffer and a write credential.
C11_Witness ==
    /\ ret.op = "push_new_aliases_to_github"
    /\ ret.kind = "return"
    /\ ret.requests = << Req("ALIAS_PUSH_URL", <<>>, <<>>) >>
    /\ NEW_ALIASES # EmptyDict
    /\ GITHUB_TOKEN

\* every concurrent record_alias call has returned
AllRecorded == \A t \in RecThreads : workers[t].pc = "done"

\* C12: the pending buffer is safe under concurrent recording: once all the
\* concurrent record_alias calls have returned, the key of every call that
\* passed the membership test is in NEW_ALIASES with a value one of these calls
\* proposed for it and has a timestamp, whatever the interleaving.
C12_ConcurrentRecordingSafe ==
    (DOMAIN workers = RecThreads /\ AllRecorded) =>
        \A t \in RecThreads :
            workers[t].recorded =>
                /\ workers[t].alias_key \in DOMAIN NEW_ALIASES
                /\ \E u \in RecThreads :
                      /\ workers[u].recorded
                      /\ workers[u].alias_key = workers[t].alias_key
                      /\ NEW_ALIASES[workers[t].alias_key] = workers[u].resolved_name
                /\ workers[t].alias_key \in DOMAIN ALIAS_TIMESTAMP

\* C12 witness: two calls for distinct keys have both passed the test and
\* returned, and both keys are pending.
C12_Witness ==
    /\ DOMAIN workers = RecThreads
    /\ AllRecorded
    /\ \E t, u \in RecThreads :
          /\ workers[t].recorded /\ workers[u].recorded
          /\ workers[t].alias_key # workers[u].alias_key
          /\ {workers[t].alias_key, workers[u].alias_key} \subseteq DOMAIN NEW_ALIASES

\* the probe of a URL was answered 200: by HEAD, or by the GET that follows
\* a HEAD without a 200
Answered200(url) ==
    url \in DOMAIN frame.reach /\ "200" \in {frame.reach[url][1], frame.reach[url][2]}

\* the primary document of the frame took the fast path and validated
FastPathValidated ==
    /\ endswith(frame.primary_doc, S_htm)
    /\ Answered200(filing_html_url(frame.cik, remove_dashes(frame.accession),
                                   frame.primary_doc))

\* C13: the URL a filing is reported with was answered 200 by its probe during
\* the call; when no URL of the filing validates, or the primary document does
\* not validate and the index page cannot be fetched, the URL and the status
\* are "Unavailable"; the status is "Validated" exactly when a URL is returned.
C13_ReturnedUrlWasValidated ==
    ret.op = "fetch_filing" =>
        /\ ret.url # S_Unavailable => Answered200(ret.url)
        /\ ( \/ \A u \in DOMAIN frame.reach : ~Answered200(u)
             \/ (~FastPathValidated /\ frame.index # "200") ) =>
               (ret.url = S_Unavailable /\ ret.report.status = "Unavailable")
        /\ ret.report.status \in {"Validated", "Unavailable"}
        /\ ret.report.status = "Validated" <=> ret.url # S_Unavailable
        /\ ret.report.html_url = ret.url

\* C13 witness: a filing whose primary document failed its probe is reported
\* with an index-page candidate that validated after another one was rejected.
C13_Witness ==
    /\ ret.op = "fetch_filing"
    /\ ret.fast
    /\ Len(ret.probes) >= 2
    /\ ret.url # S_Unavailable
    /\ ret.report.status = "Validated"
    /\ \E u \in DOMAIN frame.reach : ~Answered200(u)

\* the candidate validates under the probe of the module that ran
CandidateReachable(c) ==
    IF ret.op = "fetch_filing"
    THEN Answered200(S_SecGov \o c[2])
    ELSE frame.reach[S_SecGov \o c[2]][1] = "200"

\* the primary document did not end the call
SlowPath ==
    /\ ret.op \in {"fetch_filing", "utils.get_actual_filing_url"}
    /\ frame.index = "200"
    /\ ret.url # filing_html_url(frame.cik, remove_dashes(frame.accession), frame.primary_doc)

\* C14: when the fast path does not validate, the candidates of the index
\* page are probed in non-increasing score order and no candidate is probed
\* after one that validated: the URL returned is the last one probed and has
\* the highest score among the reachable candidates, and "Unavailable" is
\* returned only after every candidate was probed and rejected.
C14_CandidatesProbedByScore ==
    SlowPath =>
        LET probes == ret.probes
            cands  == candidates_of(frame.page)
            n      == Len(probes)
        IN  /\ \A i, j \in 1..n : i < j => probes[i][1] >= probes[j][1]
            /\ \A i \in 1..(n - 1) : ~CandidateReachable(probes[i])
            /\ \A i \in 1..n : \E k \in 1..Len(cands) : cands[k] = probes[i]
            /\ ret.url # S_Unavailable =>
                  /\ n >= 1
                  /\ ret.url = S_SecGov \o probes[n][2]
                  /\ CandidateReachable(probes[n])
                  /\ \A k \in 1..Len(cands) :
                        CandidateReachable(cands[k]) => cands[k][1] <= probes[n][1]
            /\ ret.url = S_Unavailable =>
                  /\ n = Len(cands)
                  /\ \A k \in 1..Len(cands) : ~CandidateReachable(cands[k])

\* C14 witness: the second candidate in score order is returned while a
\* candidate of lower score is reachable too and was not probed.
C14_Witness ==
    /\ SlowPath
    /\ Len(ret.probes) = 2
    /\ ret.url = S_SecGov \o ret.probes[2][2]
    /\ \E k \in 1..Len(candidates_of(frame.page)) :
          /\ CandidateReachable(candidates_of(frame.page)[k])
          /\ candidates_of(frame.page)[k][1] < ret.probes[2][1]

\* get_quarterly_filings has returned the reports of a batch
BatchReturned ==
    /\ frame.call = "get_quarterly_filings"
    /\ frame.stage = "returned"
    /\ ret.extra = "-"

\* the parsed date of a report or of a feed entry
DateKey(s) == strptime_ymd(s).key

\* C15: whatever the order in which the tasks of the pool finish, the k-th
\* report of the response of get_quarterly_filings is the result of the task
\* for the k-th selected filing, numbered k; the reports are in date order,
\* most recent first, and the one marked Most Recent (display_index 1) has the
\* latest date of all the 10-Q entries of the feed that have a date that
\* parses
C15_BatchKeepsInputOrder ==
    BatchReturned =>
      /\ Len(ret.filings) = Len(frame.top_indices)
      /\ \A k \in 1..Len(ret.filings) :
           /\ ret.filings[k].filing_date = frame.feed[frame.top_indices[k] + 1].filingDate
           /\ ret.filings[k].html_url = workers[k].result.html_url
           /\ ret.filings[k].html_link = workers[k].result.html_link
           /\ ret.filings[k].status = workers[k].result.status
           /\ ret.filings[k].display_index = str_int(k)
           /\ (ret.filings[k].marker = "Most Recent") <=> (k = 1)
           /\ k > 1 => DateKey(ret.filings[k - 1].filing_date) >= DateKey(ret.filings[k].filing_date)
      /\ \A n \in 1..Len(dated_entries(frame.feed, frame.short)) :
           (frame.feed[n].form = "10-Q" /\ strptime_ymd(frame.feed[n].filingDate).ok)
             => DateKey(frame.feed[n].filingDate) <= DateKey(ret.filings[1].filing_date)

\* a batch of two filings whose second task finished first, with different
\* results for the two
C15_Witness ==
    /\ BatchReturned
    /\ completed = <<2, 1>>
    /\ Len(ret.filings) = 2
    /\ ret.filings[1].status # ret.filings[2].status
    /\ frame.top_indices[1] > frame.top_indices[2]

\* every request of the sequence was made with a timeout argument
AllTimed(requests) == \A i \in 1..Len(requests) : requests[i].timeout # <<>>

\* C16: every outbound request of a call (the directory load, the resolution,
\* the submissions feed, the URL probes) and of every task of the batch pool
\* carries an explicit timeout
C16_EveryRequestHasTimeout ==
    /\ AllTimed(ret.requests)
    /\ \A k \in 1..Len(workers) : AllTimed(workers[k].requests)

\* a call that lists filings has returned after reading the feed: the form
\* type it was asked for, the entries of that form, and the most it returns
ListReturned ==
    /\ frame.stage = "returned"
    /\ frame.feedStatus = "200"
    /\ frame.call = "get_quarterly_filings" => ret.cik # None

RequestedForm == IF frame.call = "get_quarterly_filings" THEN "10-Q" ELSE ret.input

MatchingEntries == { n \in 1..Len(frame.feed) : frame.feed[n].form = RequestedForm }

ParsableEntries == { n \in MatchingEntries : strptime_ymd(frame.feed[n].filingDate).ok }

\* C17: the filings returned are entries of the requested form, ordered by
\* filing date descending; an entry whose date does not parse is dropped and
\* the other matching entries are returned (up to the number asked for); a feed
\* without an entry of the requested form gives an empty list and no error
C17_ListFiltersSortsAndDropsMalformed ==
    ListReturned =>
      /\ \A k \in 1..Len(ret.filings) :
           /\ \E n \in MatchingEntries : frame.feed[n].filingDate = ret.filings[k].filing_date
           /\ strptime_ymd(ret.filings[k].filing_date).ok
           /\ k > 1 => DateKey(ret.filings[k - 1].filing_date) >= DateKey(ret.filings[k].filing_date)
      /\ Len(ret.filings) = IF Cardinality(ParsableEntries) < frame.count
                            THEN Cardinality(ParsableEntries) ELSE frame.count
      /\ MatchingEntries = {} => (ret.filings = <<>> /\ ret.extra # "error")

\* extract_10q_sections has returned
Extracted == ret.op = "extract_10q_sections"

\* the "Part" headers of the document given
PartHeaders == { n \in 1..Len(ret.input) :
                   ret.input[n].tag = "p" /\ ret.input[n].text \in {T_Part1, T_PartII} }

RomanPartKeys == {"Part I", "Part II", "Part III", "Part IV"}

\* C18: for a document with N "Part" headers the dict returned holds exactly
\* N entries keyed "Part <RomanNumeral>" (one synthetic "Part I" when N = 0),
\* and each of them carries total_tokens and items
C18_OneEntryPerPartHeader ==
    Extracted =>
      LET parts == (DOMAIN ret.result) \cap RomanPartKeys
          N == Cardinality(PartHeaders)
      IN  /\ Cardinality(parts) = IF N = 0 THEN 1 ELSE N
          /\ N = 0 => parts = {"Part I"}
          /\ \A k \in parts : {"total_tokens", "items"} \subseteq DOMAIN ret.result[k]

\* every cell of every row of the table is empty after trimming
AllRowsEmpty(table) ==
    \A i \in 1..Len(table.rows) : \A j \in 1..Len(table.rows[i]) : strip(table.rows[i][j]) = <<>>

\* C19: a table of the Item 1 slice all of whose rows are empty after trimming,
\* rows of two or more empty cells included, is not among the tables returned
C19_NoEmptyTableEmitted ==
    Extracted =>
      \A n \in 1..Len(item1_html(ret.input)) :
        LET node == item1_html(ret.input)[n]
        IN  (node.tag = "table" /\ AllRowsEmpty(node))
              => \A i \in 1..Len(ret.result.item1_tables) :
                    ret.result.item1_tables[i] # table_text_of(node)

\* C20: profile_people returns one profile per person given, and the profile
\* at position i carries people[i] and titles[i] (None when there is no such
\* title), whatever the order in which the tasks finish
C20_ProfilesKeepInputOrder ==
    (ret.op = "profile_people" /\ frame.stage = "returned") =>
      /\ Len(ret.profiles) = Len(frame.people)
      /\ \A i \in 1..Len(ret.profiles) :
           /\ "name" \in DOMAIN ret.profiles[i]
           /\ ret.profiles[i].name = frame.people[i]
           /\ ret.profiles[i].title = IF frame.titles # None /\ i <= Len(frame.titles)
                                      THEN frame.titles[i] ELSE None

\* run_pipeline has returned its response (status 200)
PipelineReturned == ret.op = "run_pipeline" /\ ret.kind = "return"

\* C21: when the output of Agent 2, Agent 3 or Agent 4 fails the schema
\* validation, run_pipeline still returns its response and the executive
\* briefing holds "Agent 2 output invalid", "Agent 3 output invalid" or
\* "Agent 4 output invalid" for the agent that failed, whether the synthesis
\* call succeeded or not; only the exception of an awaited task ends in 500
C21_InvalidAgentNamedInBriefing ==
    /\ PipelineReturned =>
         /\ ~Agent2Financials(ret.body.financial_analysis).ok
              => contains(ret.body.executive_briefing, <<agent2_invalid[1]>>)
         /\ ~Agent3Profile(first_profile(ret.body.people_profiles)).ok
              => contains(ret.body.executive_briefing, <<agent3_invalid[1]>>)
         /\ ~Agent4RiskMap(ret.body.market_analysis).ok
              => contains(ret.body.executive_briefing, <<agent4_invalid[1]>>)
    /\ (ret.op = "run_pipeline" /\ ret.kind = "raise" /\ ret.status = 500)
         => \E k \in 1..Len(workers) : workers[k].result.type = "exception"

\* Agent 1 has answered
Agent1Answered == frame.stage # "idle" /\ frame.sec_data.type = "dict"

\* C22: is_public is true exactly when Agent 1 returned a non-empty filings
\* list and no error; a failed or empty Agent 1 result does not fail the call;
\* when is_public is false Agent 2 is never invoked, the response carries a
\* private_company_analysis and sec_data as Agent 1 returned it, error
\* included; when it is true private_company_analysis is None
C22_PrivateFallback ==
    Agent1Answered =>
      /\ frame.is_public <=>
           /\ "filings" \in DOMAIN frame.sec_data.items
           /\ Len(frame.sec_data.items.filings) > 0
           /\ "error" \notin DOMAIN frame.sec_data.items
      /\ ~frame.is_public => \A k \in 1..Len(workers) : workers[k].agent # "agent2"
      /\ ret.kind = "raise" => \E k \in 1..Len(workers) : workers[k].result.type = "exception"
      /\ PipelineReturned =>
           /\ ret.body.is_public = frame.is_public
           /\ ret.body.sec_data = frame.sec_data
           /\ ret.body.private_company_analysis.type = IF frame.is_public THEN "none" ELSE "dict"

\* a response for a company whose Agent 1 result was the error dict
C22_Witness ==
    /\ PipelineReturned
    /\ ~ret.body.is_public
    /\ "error" \in DOMAIN ret.body.sec_data.items
    /\ ret.body.private_company_analysis.type = "dict"

\* an event of the log of starts and finishes has happened, and its position
Happened(e) == \E i \in 1..Len(completed) : completed[i] = e
Pos(e) == CHOOSE i \in 1..Len(completed) : completed[i] = e
Before(e1, e2) == Happened(e1) /\ Pos(e1) < Pos(e2)

\* C28: Agent 1 completes before any other agent starts; in the public path
\* Agent 2 and Agent 3 are handed over together, before either is awaited;
\* Agent 4 starts only after both have finished, normally or with an
\* exception, and receives the financial_summary of Agent 2 and the first
\* profile of Agent 3
C28_PipelineOrdering ==
    (frame.stage \in {"gather", "agent4", "private", "returned"} /\ completed # <<>>) =>
      /\ completed[1] = <<"start", "agent1">> /\ completed[2] = <<"finish", "agent1">>
      /\ frame.is_public =>
           /\ Len(workers) >= 2 /\ workers[1].agent = "agent2" /\ workers[2].agent = "agent3"
           /\ frame.stage = "gather" => Len(workers) = 2
           /\ Len(workers) = 3 =>
                /\ workers[3].agent = "agent4"
                /\ workers[1].pc = "done" /\ workers[2].pc = "done"
                /\ workers[3].args[3] =
                     (IF workers[1].result.type = "dict"
                         /\ "financial_summary" \in DOMAIN workers[1].result.items
                      THEN workers[1].result.items.financial_summary ELSE None)
                /\ workers[3].args[4] =
                     (IF workers[2].result.type = "list" /\ Len(workers[2].result.items) > 0
                      THEN workers[2].result.items[1] ELSE workers[2].result)
           /\ Happened(<<"start", "agent4">>) =>
                /\ Before(<<"finish", "agent2">>, <<"start", "agent4">>)
                /\ Before(<<"finish", "agent3">>, <<"start", "agent4">>)

\* Agent 3 started while Agent 2 was running and finished first, Agent 2
\* ended with an exception, and Agent 4 has started
C28_Witness ==
    /\ frame.is_public
    /\ Happened(<<"start", "agent4">>)
    /\ Before(<<"start", "agent3">>, <<"finish", "agent2">>)
    /\ Before(<<"start", "agent2">>, <<"finish", "agent3">>)
    /\ Before(<<"finish", "agent3">>, <<"finish", "agent2">>)
    /\ workers[1].result.type = "exception"

\* analyze_financials has returned
FinancialsReturned == ret.op = "analyze_financials" /\ ret.kind = "return"

\* the required metrics that a column label of a DataFrame read from the
\* given tables names
MetricsInTables ==
    LET tables == frame.extracted_data.items.item1_tables.items
    IN  {REQUIRED_METRICS[k] : k \in {k \in DOMAIN REQUIRED_METRICS :
           \E i \in 1..Len(tables) :
              /\ frame.read_html[i].type = "list"
              /\ \E d \in 1..Len(frame.read_html[i].items) :
                   \E j \in 1..Len(frame.read_html[i].items[d].columns) :
                      metric_in(REQUIRED_METRICS[k], frame.read_html[i].items[d].columns[j])}}

\* C23: every value analyze_financials returns is a dict with the key
\* raw_tables and with the key error or the key financial_summary, and the
\* result of the Python extraction is returned only when every metric of
\* REQUIRED_METRICS was found in the tables
C23_AlwaysRawTables ==
    FinancialsReturned =>
      /\ "raw_tables" \in DOMAIN ret.value
      /\ "error" \in DOMAIN ret.value \/ "financial_summary" \in DOMAIN ret.value
      /\ "source" \in DOMAIN ret.value =>
           MetricsInTables = {REQUIRED_METRICS[k] : k \in DOMAIN REQUIRED_METRICS}

\* the Python extraction found the six metrics across two tables and its
\* result was returned
C23_Witness ==
    /\ FinancialsReturned
    /\ "source" \in DOMAIN ret.value /\ ret.value.source = "python"
    /\ Len(ret.value.raw_tables[1].tables) = 2
    /\ frame.read_html[1] = List(<<DfFirstHalf>>)

\* get_quarterly_filings was called and the call has ended
QuarterliesEnded == frame.call = "get_quarterly_filings" /\ frame.stage = "returned"

\* the failures of a call: no source resolved the name; the submissions feed
\* was unreachable or not 200; a 10-Q entry of the feed lacks its date, or a
\* selected entry its accession number or primary document; a task raised
ResolutionFailed == \A i \in DOMAIN frame.fetchEnv : frame.fetchEnv[i] = "exception"
FeedFailed == ~ResolutionFailed /\ frame.feedStatus # "200"
EntryIncomplete ==
    /\ ~ResolutionFailed /\ frame.feedStatus = "200"
    /\ \/ frame.short = "filingDate" /\ frame.feed[Len(frame.feed)].form = "10-Q"
       \/ \E k \in 1..Len(workers) : index_error(frame.feed, frame.short, workers[k].index)
WorkerFailed == \E k \in 1..Len(workers) : IsRaised(workers[k].result)

\* C24: every call of get_quarterly_filings ends with a response that holds
\* company_name, cik and filings, never with an exception; after a failed
\* resolution, a failed feed, arrays of unequal length or a failed task the
\* response has an error or a note and no filings but those that could be
\* built
C24_AlwaysStructuredResponse ==
    QuarterliesEnded =>
      /\ ret.op = "get_quarterly_filings" /\ ret.kind = "return"
      /\ {"company_name", "cik", "filings"} \subseteq DOMAIN ret
      /\ (ResolutionFailed \/ FeedFailed \/ WorkerFailed)
           => ret.filings = <<>> /\ ret.extra = "error"
      /\ EntryIncomplete => ret.extra \in {"error", "note"}

\* the requests of a call to the directory of the SEC
SecRequests(r) == Cardinality({i \in 1..Len(r.requests) : r.requests[i].url = "SEC_TICKER_CIK_URL"})

\* the answers the directory server had for the attempts of a call (the
\* environment of the call after the two alias sources), and the first
\* attempt that succeeds, 0 when none does
FetchAnswers(r) == SubSeq(r.env, 3, Len(r.env))
FirstSuccess(r) ==
    LET ok == {i \in 1..Len(FetchAnswers(r)) : FetchAnswers(r)[i] = "200"}
    IN  IF ok = {} THEN 0 ELSE CHOOSE i \in ok : \A j \in ok : i <= j

\* C25: one call of the wrapped _fetch_sec_data makes at most MAX_RETRIES
\* attempts: it stops at the first attempt that succeeds, sleeps
\* RETRY_DELAY * k after the k-th failed attempt but not after the last one,
\* and raises the exception of the last attempt when all attempts failed; a
\* failed fetch leaves the lru_cache
\* empty, and once a fetch succeeded no request is made again
C25_RetryBoundedAndCached ==
    [][ /\ sec_cache # None => sec_cache' = sec_cache
        /\ IsCall({"resolve_company_name"}) =>
             /\ SecRequests(ret') <= MAX_RETRIES
             /\ sec_cache # None => SecRequests(ret') = 0 /\ now' = now
             /\ (sec_cache = None /\ FetchAnswers(ret') # <<>>) =>
                  IF FirstSuccess(ret') # 0
                  THEN /\ SecRequests(ret') = FirstSuccess(ret')
                       /\ now' = now + retry_sleep(FirstSuccess(ret') - 1)
                       /\ sec_cache' = SEC_DIRECTORY
                  ELSE /\ SecRequests(ret') = MAX_RETRIES
                       /\ now' = now + retry_sleep(MAX_RETRIES - 1)
                       /\ retry_on_failure(FetchAnswers(ret')).exception = MAX_RETRIES
                       /\ ret'.kind = "raise"
                       /\ sec_cache' = None
      ]_vars

\* a call whose first two attempts failed and whose third succeeded, followed
\* by a call that found the directory in the cache
C25_Witness ==
    /\ ret.op = "resolve_company_name" /\ calls = 2
    /\ sec_cache = SEC_DIRECTORY
    /\ now = StartTime + retry_sleep(2)
    /\ SecRequests(ret) = 0

\* one call of load_alias_map, alone or at the start of resolve_company_name:
\* a cache hit touches nothing; a miss counts one attempt, asks GitHub first,
\* looks at the local file only after an answer outside loaded_answers, and
\* moves _last_load_time only to the time of a load from one of the sources
LoadStep(loaded_answers) ==
    IsCall({"load_alias_map", "resolve_company_name"}) =>
      LET forced == ret'.op = "load_alias_map" /\ ret'.input = <<"force_reload">>
          hit    == /\ alias_map # EmptyDict /\ ~forced
                    /\ now - last_load_time < CACHE_TTL
          github == ret'.env[1]
          file   == ret'.env[2]
          asked  == {i \in 1..Len(ret'.requests) :
                       ret'.requests[i].url = "GITHUB_ALIAS_JSON"}
      IN  IF hit
          THEN /\ asked = {} /\ github = "-" /\ file = "-"
               /\ UNCHANGED <<alias_map, last_load_time, load_attempts>>
               /\ ret'.op = "load_alias_map" => ret'.kind = "return"
          ELSE /\ load_attempts' = load_attempts + 1
               /\ asked = {1}
               /\ file # "-" => github \notin loaded_answers
               /\ last_load_time' # last_load_time =>
                    /\ github = "200" \/ file = "readable"
                    /\ last_load_time' = now

\* C26 as written: load_alias_map is a cache hit exactly when the cached map is
\* non-empty, no reload is forced and the map is younger than CACHE_TTL; every
\* other call counts one load attempt, asks GitHub first and reads the local
\* file only if GitHub did not answer with status 200
C26_LocalFileOnlyWithoutStatus200 == [][LoadStep({"200", "200 not JSON"})]_vars

\* C26: load_alias_map is a cache hit exactly when the cached map is non-empty,
\* no reload is forced and the map is younger than CACHE_TTL; every other call
\* counts one load attempt, asks GitHub first and reads the local file only if
\* no map was loaded from GitHub (no 200, or a 200 whose body is not a JSON
\* object), and _last_load_time moves only when one of the sources was loaded
C26_CacheHitOrOneLoadAttempt == [][LoadStep({"200"})]_vars

\* GitHub answered 200 with a body that is no JSON object and the map came
\* from the local file
C26_Witness ==
    /\ ret.op = "load_alias_map" /\ ret.kind = "return"
    /\ ret.env = <<"200 not JSON", "readable">>
    /\ alias_map = normalized_dict(LOCAL_ALIAS_DOC)
    /\ last_load_time = now /\ load_attempts = 1

\* a logged call to a model that gave no answer: create raised, or the
\* message had no content
ModelFailed(entry) ==
    \/ entry.outcome.kind = "raise"
    \/ entry.outcome.kind = "message" /\ entry.outcome.content = None

\* the answer call_groq hands out for a logged call that succeeded
AnswerOf(entry) ==
    IF entry.outcome.kind = "message"
    THEN Str(strip(entry.outcome.content))
    ELSE Generator(entry.outcome.chunks)

\* call_groq has ended
GroqEnded == frame.stage = "done" /\ ret.op = "call_groq"

\* C27: call_groq calls the models of GROQ_MODEL_PRIORITY in list order, each
\* at most once, and none after a model answered; it returns the answer of
\* the first model that succeeds, and it raises RuntimeError with the error of
\* the last model only after every model of the list has failed
C27_ModelsInPriorityOrder ==
    LET n == Len(completed)
    IN  /\ n <= Len(GROQ_MODEL_PRIORITY)
        /\ \A i \in 1..n : completed[i].model = GROQ_MODEL_PRIORITY[i]
        /\ \A i \in 1..(n - 1) : ModelFailed(completed[i])
        /\ (GroqEnded /\ ret.kind = "return") =>
             /\ n >= 1 /\ ~ModelFailed(completed[n])
             /\ ret.value = AnswerOf(completed[n])
        /\ (GroqEnded /\ ret.kind = "raise") =>
             /\ n = Len(GROQ_MODEL_PRIORITY)
             /\ \A i \in 1..n : ModelFailed(completed[i])
             /\ ret.value.type = "RuntimeError"
             /\ ret.value.last_error.type = "exception"
             /\ ret.value.last_error.model = GROQ_MODEL_PRIORITY[n]

\* the first model raised, the second answered without content and the third
\* answered
C27_Witness ==
    /\ GroqEnded /\ ret.kind = "return"
    /\ Len(completed) = 3
    /\ completed[1].outcome.kind = "raise"
    /\ completed[2].outcome = [kind |-> "message", content |-> None]
    /\ ret.value = Str(<<"o", "k">>)

\* the entries of a cache that are younger than the TTL at time t
Younger(cache, t) ==
    {i \in 1..Len(cache) : t - (cache[i].expires - AGENT1_CACHE_TTL) < AGENT1_CACHE_TTL}

\* the entries a step has put into a cache
Stored(before, after) ==
    {after[i] : i \in 1..Len(after)} \ {before[i] : i \in 1..Len(before)}

\* a fetch_10q call: a key with a young entry is answered from the cache with
\* no request; otherwise the upstream is called once, first, with the
\* arguments of the call; the result is stored under the key exactly when the
\* call did not end in the exception branch
Fetch10qStep ==
    IsCall({"fetch_10q"}) =>
      LET key   == normalize_key(ret'.input[1]) \o <<"_">> \o str_int(ret'.input[2])
          meta  == frame.meta_cache
          live  == {i \in Younger(meta, now) : meta[i].key = key}
          calls_up == {i \in 1..Len(ret'.requests) :
                         ret'.requests[i].url = "get_quarterly_filings"}
          new   == Stored(meta, frame'.meta_cache)
          failed == "error" \in DOMAIN ret'.value
      IN  /\ live # {} =>
               /\ ret'.requests = <<>>
               /\ \E i \in live : ret'.value = meta[i].value
               /\ new = {}
          /\ live = {} =>
               /\ calls_up = {1}
               /\ ret'.requests[1].company_name = ret'.input[1]
               /\ ret'.requests[1].count = ret'.input[2]
               /\ failed <=> ret'.requests[1].answer = "raise"
               /\ failed => /\ new = {}
                            /\ \A i \in Younger(frame'.meta_cache, now) :
                                 frame'.meta_cache[i].key # key
               /\ ~failed => new = {[key |-> key, value |-> ret'.value,
                                     expires |-> now + AGENT1_CACHE_TTL]}

\* a fetch_10q_html call, and the pages a fetch_10q call asks for: a page is
\* stored only after a request for its URL that was answered, under that URL
FetchHtmlStep ==
    /\ IsCall({"fetch_10q", "fetch_10q_html"}) =>
         \A e \in Stored(frame.html_cache, frame'.html_cache) :
           /\ \E i \in 1..Len(ret'.requests) :
                ret'.requests[i].url = e.key /\ ret'.requests[i].answer = "200"
           /\ e.value = PageOf(e.key)
           /\ e.expires = now + AGENT1_CACHE_TTL
    /\ IsCall({"fetch_10q_html"}) =>
         LET html == frame.html_cache
             live == {i \in Younger(html, now) : html[i].key = ret'.input}
         IN  /\ live # {} =>
                  /\ ret'.requests = <<>> /\ ret'.kind = "return"
                  /\ \E i \in live : ret'.value = html[i].value
             /\ live = {} =>
                  /\ Len(ret'.requests) = 1 /\ ret'.requests[1].url = ret'.input
                  /\ ret'.requests[1].answer # "200" =>
                       ret'.kind = "raise" /\ frame'.html_cache = html

\* C29: fetch_10q answers a cached key (lowercased trimmed name, count)
\* without an upstream call and stores a result only on the path without
\* exception, so that a failed call is tried upstream again; fetch_10q_html
\* stores a page only after a successful fetch, under its URL; no cache holds
\* more than the configured number of entries or serves an entry of the TTL's
\* age or older
C29_CachesBoundedFreshAndSuccessOnly ==
    [][ /\ Len(frame'.meta_cache) <= AGENT1_CACHE_SIZE
        /\ Len(frame'.html_cache) <= AGENT1_CACHE_SIZE
        /\ Fetch10qStep
        /\ FetchHtmlStep ]_vars

\* a second call for "meta", one second before the entry that " Meta " left
\* expires, is answered from the cache
C29_Witness ==
    /\ ret.op = "fetch_10q" /\ calls = 2
    /\ ret.input = <<S_meta, 1>>
    /\ ret.requests = <<>>
    /\ now = StartTime + AGENT1_CACHE_TTL - 1
    /\ Len(ret.value.filings) = 1
    /\ ret.value.filings[1].estimated_tokens = IntValue(4)

\* C30: every successful POST /question_bank raises the stored version by
\* one and keeps the earlier updates: after k successful updates, issued one
\* after the other or at the same time, the file has the initial version plus
\* k and the keys of all k updates; a request without write permission gets
\* 403 and leaves the file as it was
C30_VersionCountsEveryUpdate ==
    [][ /\ Get(frame'.question_bank, "version", 0)
             = Get(frame.initial, "version", 0) + Len(completed')
        /\ \A n \in 1..Len(completed') :
             DOMAIN completed'[n].update \subseteq DOMAIN frame'.question_bank
        /\ (IsCall({"update_question_bank"}) /\ ret'.agent # "agent4") =>
             /\ ret'.kind = "raise" /\ ret'.status = 403
             /\ frame' = frame ]_vars

====
